---- MODULE Spec2Model ----
(***************************************************************************)
(* Chat server of Chat_app.py: one worker thread per accepted connection   *)
(* (ChatServer.handle_client), all workers sharing the dict self.clients   *)
(* and the counter self.message_count without any lock.                    *)
(*                                                                         *)
(* A step of the model is one stretch of a worker's code between two       *)
(* points where another thread can run: a socket call, a read or a write   *)
(* of shared state, one iteration of a loop over shared or snapshot data.  *)
(***************************************************************************)
EXTENDS Naturals, Sequences, FiniteSets

\* ------------------------------------------------------------------ bounds

\* Plain texts a client of the ordering run sends, one after the other.
MaxOrdered == 2

\* Number of connections the server accepts in a run.
NConn == 2
\* Number of sessions of a run that starts with every session identified.
NJoined == 3
\* Payloads a client sends after its username before it disconnects.
MaxMsgs == 1

\* Lines the user enters in one chat loop of the client.
MaxLines == 2
\* Rounds of the login loop of the client.
MaxAttempts == 2
\* Registrations in one run of the client program.
MaxRegs == 1

Conns == 1..NConn
Sessions == 1..NJoined

\* ----------------------------------------------------------------- strings
\* Texts are TLA+ strings; TLC evaluates \o, Len and SubSeq on them.

startswith(s, p) == Len(s) >= Len(p) /\ SubSeq(s, 1, Len(p)) = p

CharAt(s, i) == SubSeq(s, i, i)

\* The characters U+0001..U+005F and U+0061..U+00FF, in the order of their
\* code points.  A string of the module cannot hold U+0000 or U+0060.
CharsBelow96 ==
    "\t\n\f\r !\"#$%&'()*+,-./0123456789:;<=>?@ABCDEFGHIJKLMNOPQRSTUVWXYZ[\\]^_"

CharsAbove96 ==
    "abcdefghijklmnopqrstuvwxyz{|}~ ¡¢£¤¥¦§¨©ª«¬­®¯°±²³´µ¶·¸¹º»¼½¾¿ÀÁÂÃÄÅÆÇÈÉÊËÌÍÎÏÐÑÒÓÔÕÖ×ØÙÚÛÜÝÞßàáâãäåæçèéêëìíîïðñòóôõö÷øùúûüýþÿ"

\* chr(n), and the byte n.
chr(n) == IF n < 96 THEN CharAt(CharsBelow96, n) ELSE CharAt(CharsAbove96, n - 96)

\* ord(ch) of a character, and the value of a byte.
ord(ch) == CHOOSE n \in (1..255) \ {96} : chr(n) = ch

\* The characters U+0080..U+00FF, and the bytes 0x80..0xFF.
NonAscii == {chr(n) : n \in 128..255}

\* A character above U+00FF is written in a text as the sequence of bytes
\* that str.encode('utf-8') makes of it, each continuation byte 0x80..0xBF
\* standing as the character 0x100 above it, U+0180..U+01BF: no character up
\* to U+00FF is written with one of these, so that two texts are written the
\* same only if they are the same.
Continuations ==
    "ƀƁƂƃƄƅƆƇƈƉƊƋƌƍƎƏƐƑƒƓƔƕƖƗƘƙƚƛƜƝƞƟƠơƢƣƤƥƦƧƨƩƪƫƬƭƮƯưƱƲƳƴƵƶƷƸƹƺƻƼƽƾƿ"

continuation(n) == CharAt(Continuations, n - 127)

ContinuationChars == {continuation(n) : n \in 128..191}

continuation_byte(ch) == CHOOSE n \in 128..191 : continuation(n) = ch

\* The character whose UTF-8 encoding is the two, three or four bytes bs.
wide(bs) ==
    IF Len(bs) = 2 THEN chr(bs[1]) \o continuation(bs[2])
    ELSE IF Len(bs) = 3 THEN chr(bs[1]) \o continuation(bs[2]) \o continuation(bs[3])
    ELSE chr(bs[1]) \o continuation(bs[2]) \o continuation(bs[3]) \o continuation(bs[4])

\* The pieces lo to hi of a sequence of texts, or of sequences, put end to end.
RECURSIVE concat_range(_, _, _, _)
concat_range(pieces, lo, hi, empty) ==
    IF lo > hi THEN empty
    ELSE IF lo = hi THEN pieces[lo]
    ELSE LET mid == (lo + hi) \div 2 IN
         concat_range(pieces, lo, mid, empty) \o concat_range(pieces, mid + 1, hi, empty)

\* str.encode('utf-8'): a character up to U+007F is one byte, one from U+0080
\* to U+00FF two bytes, and one above U+00FF the bytes it is written with.
encode(s) ==
    LET piece(i) ==
            LET ch == CharAt(s, i) IN
            IF ch \in ContinuationChars THEN chr(continuation_byte(ch))
            ELSE IF ch \in NonAscii /\ i < Len(s) /\ CharAt(s, i + 1) \in ContinuationChars
            THEN ch
            ELSE IF ch \in NonAscii
            THEN chr(192 + (ord(ch) \div 64)) \o chr(128 + (ord(ch) % 64))
            ELSE ch IN
    concat_range([i \in 1..Len(s) |-> piece(i)], 1, Len(s), "")

\* The number of continuation bytes that follow the byte n when it leads a
\* well-formed UTF-8 sequence of several bytes, 0 when it leads none.
utf8_following(n) ==
    IF n \in 194..223 THEN 1
    ELSE IF n \in 224..239 THEN 2
    ELSE IF n \in 240..244 THEN 3
    ELSE 0

\* The values the byte after the lead byte n may have.
utf8_second(n) ==
    IF n = 224 THEN 160..191
    ELSE IF n = 237 THEN 128..159
    ELSE IF n = 240 THEN 144..191
    ELSE IF n = 244 THEN 128..143
    ELSE 128..191

\* bytes.decode('utf-8'): ok tells whether it returns, text what it returns.
\* It raises UnicodeDecodeError on a byte that cannot lead a sequence, on a
\* continuation byte out of range or out of a sequence, and on a sequence cut
\* short.  A sequence of two bytes led by 0xC2 or 0xC3 is a character from
\* U+0080 to U+00FF; any other well-formed sequence is a character above
\* U+00FF.
decode(b) ==
    LET high(i) == CharAt(b, i) \in NonAscii
        byte(i) == ord(CharAt(b, i))
        continues(i) == high(i) /\ byte(i) \in 128..191
        following(i) == IF high(i) THEN utf8_following(byte(i)) ELSE 0
        \* the byte at i starts a character
        starts(i) ==
            \/ ~high(i)
            \/ /\ following(i) > 0
               /\ i + following(i) <= Len(b)
               /\ CharAt(b, i + 1) \in NonAscii
               /\ byte(i + 1) \in utf8_second(byte(i))
               /\ \A j \in (i + 2)..(i + following(i)) : continues(j)
        \* the byte at j is a continuation byte of a sequence begun before it
        belongs(j) ==
            \E i \in 1..(j - 1) :
                /\ j - i <= 3
                /\ ~continues(i)
                /\ i + following(i) >= j
                /\ \A m \in (i + 1)..(j - 1) : continues(m)
        char(i) ==
            IF continues(i) THEN ""
            ELSE IF ~high(i) THEN CharAt(b, i)
            ELSE IF byte(i) \in 194..195
            THEN chr(((byte(i) - 192) * 64) + (byte(i + 1) - 128))
            ELSE wide([m \in 1..(1 + following(i)) |-> byte(i + m - 1)]) IN
    IF \A i \in 1..Len(b) : IF continues(i) THEN belongs(i) ELSE starts(i)
    THEN [ok |-> TRUE, text |-> concat_range([i \in 1..Len(b) |-> char(i)], 1, Len(b), "")]
    ELSE [ok |-> FALSE, text |-> ""]

\* The places the first character of the text s takes.
char_len(s) ==
    IF Len(s) > 1 /\ CharAt(s, 2) \in ContinuationChars
    THEN 1 + utf8_following(ord(CharAt(s, 1)))
    ELSE 1

\* The code point of the character written char, and the character of the
\* code point n.
code_point(char) ==
    LET b(i) == IF i = 1 THEN ord(CharAt(char, 1))
                ELSE continuation_byte(CharAt(char, i)) - 128 IN
    IF Len(char) = 1 THEN ord(char)
    ELSE IF Len(char) = 2 THEN ((b(1) - 192) * 64) + b(2)
    ELSE IF Len(char) = 3 THEN ((b(1) - 224) * 4096) + (b(2) * 64) + b(3)
    ELSE ((b(1) - 240) * 262144) + (b(2) * 4096) + (b(3) * 64) + b(4)

from_code_point(n) ==
    IF n < 256 THEN chr(n)
    ELSE IF n < 2048 THEN wide(<<192 + (n \div 64), 128 + (n % 64)>>)
    ELSE IF n < 65536
    THEN wide(<<224 + (n \div 4096), 128 + ((n \div 64) % 64), 128 + (n % 64)>>)
    ELSE wide(<<240 + (n \div 262144), 128 + ((n \div 4096) % 64),
                128 + ((n \div 64) % 64), 128 + (n % 64)>>)

\* The code points of the characters of a text, and the text of them.
code_points(s) ==
    LET point(i) ==
            IF CharAt(s, i) \in ContinuationChars THEN <<>>
            ELSE LET rest == SubSeq(s, i, Len(s)) IN
                 <<code_point(SubSeq(rest, 1, char_len(rest)))>> IN
    concat_range([i \in 1..Len(s) |-> point(i)], 1, Len(s), <<>>)

text_of(points) ==
    concat_range([i \in 1..Len(points) |-> from_code_point(points[i])], 1, Len(points), "")

\* Characters str.strip() removes: the white space of Unicode.  Up to U+00FF
\* these are U+0009..U+000D, U+001C..U+001F, U+0020, U+0085 and U+00A0 ...
Whitespace ==
    {"\t", "\n", "", "\f", "\r", "", "", "", "", " ", "", " "}

\* ... and above it U+1680, U+2000..U+200A, U+2028, U+2029, U+202F, U+205F
\* and U+3000, each of three bytes in UTF-8.
WideWhitespace ==
    {wide(<<225, 154, 128>>), wide(<<226, 129, 159>>), wide(<<227, 128, 128>>)}
    \cup {wide(<<226, 128, n>>) : n \in (128..138) \cup {168, 169, 175}}

\* The places of a text where a character that is no white space begins.
non_space(s) ==
    {i \in 1..Len(s) :
        /\ CharAt(s, i) \notin ContinuationChars
        /\ CharAt(s, i) \notin Whitespace
        /\ ~(i + 2 <= Len(s) /\ SubSeq(s, i, i + 2) \in WideWhitespace)}

lstrip(s) ==
    IF non_space(s) = {} THEN ""
    ELSE SubSeq(s, CHOOSE i \in non_space(s) : \A j \in non_space(s) : i <= j, Len(s))

rstrip(s) ==
    IF non_space(s) = {} THEN ""
    ELSE LET last == CHOOSE i \in non_space(s) : \A j \in non_space(s) : j <= i IN
         SubSeq(s, 1, last + char_len(SubSeq(s, last, Len(s))) - 1)

\* str.strip()
strip(s) == rstrip(lstrip(s))

\* str.find(" ") from position i on: the index of the first space, 0 if none.
find_space(s, i) ==
    LET spaces == {j \in i..Len(s) : CharAt(s, j) = " "} IN
    IF spaces = {} THEN 0 ELSE CHOOSE j \in spaces : \A k \in spaces : j <= k

\* str.split(' ', maxsplit): at most maxsplit cuts, empty pieces kept.
RECURSIVE split(_, _)
split(s, maxsplit) ==
    LET i == find_space(s, 1) IN
    IF maxsplit = 0 \/ i = 0 THEN <<s>>
    ELSE <<SubSeq(s, 1, i - 1)>> \o split(SubSeq(s, i + 1, Len(s)), maxsplit - 1)

\* '\n'.join(seq)
RECURSIVE join(_)
join(seq) ==
    IF Len(seq) = 0 THEN ""
    ELSE IF Len(seq) = 1 THEN seq[1]
    ELSE seq[1] \o "\n" \o join(Tail(seq))

\* str(n) for a natural number
Digit(d) == SubSeq("0123456789", d + 1, d + 1)

RECURSIVE str(_)
str(n) == IF n < 10 THEN Digit(n) ELSE str(n \div 10) \o Digit(n % 10)

\* -------------------------------------------------------------------- dict
\* self.clients is a Python dict: insertion ordered, a deleted key leaves a
\* hole in the entry table and a new key is appended after the last entry
\* (the table is only compacted by a resize, which a dict of at most five
\* insertions never does).  An entry is [conn, user, live].

dict_keys(d) ==
    LET RECURSIVE K(_)
        K(i) == IF i > Len(d) THEN <<>>
                ELSE IF d[i].live THEN <<d[i].conn>> \o K(i + 1)
                ELSE K(i + 1)
    IN K(1)

\* dict_values that also yields the entries that have been deleted.
dict_values_deleted(d) ==
    LET RECURSIVE V(_)
        V(i) == IF i > Len(d) THEN <<>>
                ELSE <<d[i].user>> \o V(i + 1)
    IN V(1)

dict_values(d) ==
    LET RECURSIVE V(_)
        V(i) == IF i > Len(d) THEN <<>>
                ELSE IF d[i].live THEN <<d[i].user>> \o V(i + 1)
                ELSE V(i + 1)
    IN V(1)

\* The keys as a set.
dict_keyset(d) == {d[i].conn : i \in {j \in 1..Len(d) : d[j].live}}

dict_contains(d, c) == \E i \in 1..Len(d) : d[i].live /\ d[i].conn = c

dict_len(d) == Cardinality({i \in 1..Len(d) : d[i].live})

dict_get(d, c) == d[CHOOSE i \in 1..Len(d) : d[i].live /\ d[i].conn = c].user

\* self.clients[conn] = username
dict_setitem(d, c, u) ==
    IF dict_contains(d, c)
    THEN [i \in 1..Len(d) |->
            IF d[i].live /\ d[i].conn = c THEN [d[i] EXCEPT !.user = u] ELSE d[i]]
    ELSE Append(d, [conn |-> c, user |-> u, live |-> TRUE])

\* self.clients.pop(conn), for a key that is present
dict_pop(d, c) ==
    [i \in 1..Len(d) |->
        IF d[i].live /\ d[i].conn = c THEN [d[i] EXCEPT !.live = FALSE] ELSE d[i]]

\* ------------------------------------------------------------------- state

VARIABLES
    clients,        \* self.clients
    message_count,  \* self.message_count
    pc,             \* where each connection's worker thread is
    username,       \* handle_client's local username
    msg,            \* handle_client's local msg
    nrecv,          \* payloads read so far from each connection
    nbytes,         \* bytes conn.recv has returned so far on each connection
    closed,         \* conn.close() has been called on the connection
    peer,           \* the client's end of the connection: "up"; "eof", closed
                    \* by the client, the server's sends still accepted;
                    \* "broken", reset, or closed and the server's end told
    inbox,          \* frames the server has sent on each connection
    bc,             \* the frame of the worker's running broadcast() call
    it,             \* the dict iterator of the /private lookup
    target_conn,    \* handle_client's local target_conn (0: None)
    loaded,         \* message_count as loaded by the worker's += 1
    reply,          \* the text the worker has built and not yet sent: user_list,
                    \* stats_message
    notices,        \* history: the join and leave broadcasts each worker has called,
                    \* and the uptime its last send_stats computed
    chat_client,    \* a ChatClient process: its object, its threads, its connection
    users_file      \* the file users.json

vars == <<clients, message_count, pc, username, msg, nrecv, nbytes, closed, peer,
          inbox, bc, it, target_conn, loaded, notices, reply, chat_client, users_file>>

\* ------------------------------------------------------------------ frames

\* "[SERVER] {username} has joined the chat."
JoinNotice(u) == "[SERVER] " \o u \o " has joined the chat."

\* "[SERVER] {username} has left the chat."
LeaveNotice(u) == "[SERVER] " \o u \o " has left the chat."

\* "{username}: {msg}"
ChatFrame(u, m) == u \o ": " \o m

help_message ==
    "/help - Show this help message\n"
    \o "/list - List all connected users\n"
    \o "/private <username> <message> - Send a private message\n"
    \o "/stats - Show server statistics"

HelpReply == "[SERVER] Commands:\n" \o help_message \o "\n"

user_list(d) == "[SERVER] Connected users:\n" \o join(dict_values(d))

InvalidFormat == "[SERVER] Invalid format. Use /private <username> <message>\n"

PrivateFrame(u, m) == "[PRIVATE] " \o u \o ": " \o m \o "\n"

PrivateEchoFrame(t, m) == "[PRIVATE] To " \o t \o ": " \o m \o "\n"

NotFound == "[SERVER] User not found.\n"

\* "%02d" % n
Pad2(n) == IF n < 10 THEN "0" \o str(n) ELSE str(n)

\* timedelta_str with the days left in the hours field.
timedelta_str_hours(n) ==
    str(n \div 3600) \o ":" \o Pad2((n % 3600) \div 60) \o ":" \o Pad2(n % 60)

\* str(timedelta(seconds=n))
timedelta_str(n) ==
    LET days == n \div 86400
        secs == n % 86400
        hh == secs \div 3600
        mm == (secs % 3600) \div 60
        ss == secs % 60
        hms == str(hh) \o ":" \o Pad2(mm) \o ":" \o Pad2(ss)
    IN IF days = 0 THEN hms
       ELSE str(days) \o (IF days = 1 THEN " day, " ELSE " days, ") \o hms

\* stats_head that counts every connection ever registered, the removed
\* ones included.
stats_head_registered(d) ==
    "[SERVER STATS]\n"
    \o "Active users: " \o str(Len(d)) \o "\n"

\* stats_message is an f-string, whose fields are evaluated from left to
\* right: its text up to the field len(self.clients) and that field ...
stats_head(d) ==
    "[SERVER STATS]\n"
    \o "Active users: " \o str(dict_len(d)) \o "\n"

\* ... and the rest of it, with the fields self.message_count and uptime.
stats_tail(count, uptime) ==
    "Total messages: " \o str(count) \o "\n"
    \o "Uptime: " \o timedelta_str(uptime)

\* ----------------------------------------------------------------- sockets

\* conn.send raises on a socket the server has closed (OSError) and on a
\* broken connection (ConnectionResetError, BrokenPipeError); otherwise it
\* returns, also on a connection the client has just closed.
SendOK(c) == ~closed[c] /\ peer[c] \in {"up", "eof"}

\* Sent with the frame put ahead of the frames already sent on the connection.
SentAhead(inb, c, frame) == IF SendOK(c) THEN [inb EXCEPT ![c] = <<frame>> \o @] ELSE inb

Sent(inb, c, frame) == IF SendOK(c) THEN [inb EXCEPT ![c] = Append(@, frame)] ELSE inb

\* ------------------------------------------------------------------ router

\* The chain with == in place of startswith: only a payload that is the
\* command and nothing more is taken as the command.
DispatchExact(m) ==
    IF m = "/help" THEN "help"
    ELSE IF m = "/list" THEN "list"
    ELSE IF m = "/private" THEN "private"
    ELSE IF m = "/stats" THEN "stats"
    ELSE "chat"

\* The if/elif chain of handle_client: where the worker goes with msg.
Dispatch(m) ==
    IF startswith(m, "/help") THEN "help"
    ELSE IF startswith(m, "/list") THEN "list"
    ELSE IF startswith(m, "/private") THEN "private"
    ELSE IF startswith(m, "/stats") THEN "stats"
    ELSE "chat"

\* A call of broadcast(msg, sender) that has not yet taken its snapshot; ret
\* is where the caller goes on.  The other fields are history: at_join is,
\* for the join notice, the keys of the registry when the session was
\* registered; reg the keys of the registry at the snapshot, sent the
\* connections the frame was sent to, failed those whose send raised.
BroadcastCall(m, sender, ret, keys) ==
    [msg |-> m, sender |-> sender, ret |-> ret, snap |-> <<>>, idx |-> 0,
     at_join |-> keys, reg |-> {}, sent |-> <<>>, failed |-> <<>>]

NoBroadcast == BroadcastCall("", 0, "", {})

NoNotices == [join |-> 0, leave |-> 0, uptime |-> 0]

NoIter == [used |-> 0, pos |-> 0, len |-> 0]

\* The file users.json: whether it exists and the JSON object it holds, a
\* function from usernames to password digests.
UsersFile(users) == [exists |-> TRUE, users |-> users]

NoUsersFile == [exists |-> FALSE, users |-> [u \in {} |-> ""]]

\* A ChatClient: where the main thread is (pc), whether the process is
\* running, the calls of register whose
\* start_client has not returned (depth), whether connect succeeded, whether
\* the client has closed the socket, the server's end of the connection
\* (remote: open, closed or reset), whether a recv has come to the end of
\* what the server sent (drained: until then frames sent before the server
\* closed are still to be read), self.username ("": None), the bytes
\* passed to send that did not raise, the receive threads (rx), and as history the lines entered in the
\* running chat loop and those of them that were sent, the credentials last
\* entered with the result of the call they were given to (ok), and the
\* numbers of logins tried and of registrations.
Client(connected) ==
    [pc |-> "start", running |-> TRUE, depth |-> 0, connected |-> connected,
     closed |-> FALSE,
     remote |-> "open", drained |-> FALSE, username |-> "", sent |-> <<>>,
     rx |-> <<>>,
     typed |-> <<>>, chat_sent |-> <<>>, user |-> "", pass |-> "", ok |-> FALSE,
     attempts |-> 0, regs |-> 0]

\* No client process: the server's run.
NoClient == [Client(FALSE) EXCEPT !.pc = "off", !.running = FALSE]

\* -------------------------------------------------------------------- Init

\* The server after construction: no client, no message, no thread.
Init ==
    /\ clients = <<>>
    /\ message_count = 0
    /\ pc = [c \in Conns |-> "idle"]
    /\ username = [c \in Conns |-> ""]
    /\ msg = [c \in Conns |-> ""]
    /\ nrecv = [c \in Conns |-> 0]
    /\ nbytes = [c \in Conns |-> 0]
    /\ closed = [c \in Conns |-> FALSE]
    /\ peer = [c \in Conns |-> "up"]
    /\ inbox = [c \in Conns |-> <<>>]
    /\ bc = [c \in Conns |-> NoBroadcast]
    /\ it = [c \in Conns |-> NoIter]
    /\ target_conn = [c \in Conns |-> 0]
    /\ loaded = [c \in Conns |-> 0]
    /\ reply = [c \in Conns |-> ""]
    /\ notices = [c \in Conns |-> NoNotices]
    /\ chat_client = NoClient
    /\ users_file = NoUsersFile

\* ----------------------------------------------------------------- actions

\* What the client's end can turn into.  A client that closes its socket
\* (ChatClient.chat on /quit, or the end of its process) leaves the server's
\* reads returning b''; the server's sends are accepted until the transport
\* has answered one with a reset, and raise from then on.  A client that
\* closes with frames unread, or is killed, resets the connection: sends
\* raise, and the next read raises unless a send has raised before it.
PeerNext(state) ==
    IF state = "up" THEN {"eof", "broken"}
    ELSE IF state = "eof" THEN {"broken"}
    ELSE {}

\* The client of an accepted connection closes or resets it, at any moment.
ClientLeaves(c) ==
    /\ pc[c] \notin {"idle", "done"}
    /\ ~closed[c]
    /\ \E state \in PeerNext(peer[c]) : peer' = [peer EXCEPT ![c] = state]
    /\ UNCHANGED <<notices, clients, message_count, pc, username, msg, nrecv, nbytes, closed,
                   inbox, bc, it, target_conn, loaded,
                   reply, chat_client, users_file>>

\* start: accept the next connection and start its thread.
Accept(c) ==
    /\ pc[c] = "idle"
    /\ \A d \in Conns : d < c => pc[d] # "idle"
    /\ pc' = [pc EXCEPT ![c] = "recv_username"]
    /\ UNCHANGED <<notices, clients, message_count, username, msg, nrecv, nbytes, closed, peer,
                   inbox, bc, it, target_conn, loaded,
                   reply, chat_client, users_file>>

\* handle_client, line 110: the first conn.recv(1024), decoded and stripped;
\* frames is what it may return.  It returns bytes the client has sent, also
\* after the client has closed or the connection was reset, and b'' only
\* once the client has gone; decode raises on bytes that are not UTF-8.
RecvUsername(c, frames) ==
    /\ pc[c] = "recv_username"
    /\ \E f \in frames :
          /\ f = "" => peer[c] \in {"eof", "broken"}
          /\ nbytes' = [nbytes EXCEPT ![c] = @ + Len(f)]
          /\ IF decode(f).ok
             THEN /\ username' = [username EXCEPT ![c] = strip(decode(f).text)]
                  /\ pc' = [pc EXCEPT ![c] = "register"]
             ELSE /\ username' = username
                  /\ pc' = [pc EXCEPT ![c] = "close"]
    /\ UNCHANGED <<notices, clients, message_count, msg, nrecv, closed, peer, inbox,
                   bc, it, target_conn, loaded,
                   reply, chat_client, users_file>>

\* handle_client, line 110: the first conn.recv(1024) raises
\* ConnectionResetError on a reset connection that holds no bytes to read:
\* the except clause, and the finally block.
RecvUsernameReset(c) ==
    /\ pc[c] = "recv_username"
    /\ peer[c] = "broken"
    /\ pc' = [pc EXCEPT ![c] = "close"]
    /\ UNCHANGED <<notices, clients, message_count, username, msg, nrecv, nbytes, closed,
                   peer, inbox, bc, it, target_conn, loaded,
                   reply, chat_client, users_file>>

\* Register with the first frame taken as a payload of the loop as well:
\* after the join broadcast the worker goes where the router sends it.
RegisterRouted(c) ==
    /\ pc[c] = "register"
    /\ clients' = dict_setitem(clients, c, username[c])
    /\ bc' = [bc EXCEPT ![c] =
                BroadcastCall(JoinNotice(username[c]), c,
                              IF Dispatch(username[c]) = "chat" THEN "count_load"
                              ELSE Dispatch(username[c]),
                              dict_keyset(clients'))]
    /\ msg' = [msg EXCEPT ![c] = username[c]]
    /\ pc' = [pc EXCEPT ![c] = "bc_snapshot"]
    /\ notices' = [notices EXCEPT ![c].join = @ + 1]
    /\ UNCHANGED <<message_count, username, nrecv, nbytes, closed, peer, inbox, it,
                   target_conn, loaded,
                   reply, chat_client, users_file>>

\* Register with broadcast called without the sender: the join notice is
\* sent to the joining session too.
RegisterNoSender(c) ==
    /\ pc[c] = "register"
    /\ clients' = dict_setitem(clients, c, username[c])
    /\ bc' = [bc EXCEPT ![c] =
                BroadcastCall(JoinNotice(username[c]), 0, "recv", dict_keyset(clients'))]
    /\ pc' = [pc EXCEPT ![c] = "bc_snapshot"]
    /\ notices' = [notices EXCEPT ![c].join = @ + 1]
    /\ UNCHANGED <<message_count, username, msg, nrecv, nbytes, closed, peer, inbox, it,
                   target_conn, loaded,
                   reply, chat_client, users_file>>

\* handle_client, lines 111-113: the name read is logged and written to the
\* registry, whatever has become of the client since the read, and
\* broadcast is called with the join notice.
Register(c) ==
    /\ pc[c] = "register"
    /\ clients' = dict_setitem(clients, c, username[c])
    /\ bc' = [bc EXCEPT ![c] =
                BroadcastCall(JoinNotice(username[c]), c, "recv", dict_keyset(clients'))]
    /\ pc' = [pc EXCEPT ![c] = "bc_snapshot"]
    /\ notices' = [notices EXCEPT ![c].join = @ + 1]
    /\ UNCHANGED <<message_count, username, msg, nrecv, nbytes, closed, peer, inbox, it,
                   target_conn, loaded,
                   reply, chat_client, users_file>>

\* broadcast: for client in list(self.clients)
BroadcastSnapshot(c) ==
    /\ pc[c] = "bc_snapshot"
    /\ bc' = [bc EXCEPT ![c].snap = dict_keys(clients), ![c].idx = 1,
                        ![c].reg = dict_keyset(clients)]
    /\ pc' = [pc EXCEPT ![c] = "bc_loop"]
    /\ UNCHANGED <<notices, clients, message_count, username, msg, nrecv, nbytes, closed, peer,
                   inbox, it, target_conn, loaded,
                   reply, chat_client, users_file>>

\* BroadcastStep without the test client != sender: the sender is sent its
\* own frame.
BroadcastStepToAll(c) ==
    /\ pc[c] = "bc_loop"
    /\ bc[c].idx <= Len(bc[c].snap)
    /\ LET client == bc[c].snap[bc[c].idx] IN
        /\ inbox' = Sent(inbox, client, bc[c].msg)
        /\ bc' = [bc EXCEPT ![c].idx = @ + 1,
                            ![c].sent = IF SendOK(client) THEN Append(@, client) ELSE @,
                            ![c].failed = IF SendOK(client) THEN @ ELSE Append(@, client)]
    /\ UNCHANGED <<notices, clients, message_count, pc, username, msg, nrecv, nbytes, closed, peer,
                   it, target_conn, loaded,
                   reply, chat_client, users_file>>

\* BroadcastStep without the try around send: a send that raises leaves the
\* loop and ends the caller in its finally block.
BroadcastStepAbort(c) ==
    /\ pc[c] = "bc_loop"
    /\ bc[c].idx <= Len(bc[c].snap)
    /\ LET client == bc[c].snap[bc[c].idx] IN
        IF client # bc[c].sender
        THEN /\ inbox' = Sent(inbox, client, bc[c].msg)
             /\ bc' = [bc EXCEPT ![c].idx = @ + 1,
                                 ![c].sent = IF SendOK(client) THEN Append(@, client) ELSE @,
                                 ![c].failed = IF SendOK(client) THEN @ ELSE Append(@, client)]
             /\ pc' = [pc EXCEPT ![c] = IF SendOK(client) THEN @ ELSE "close"]
        ELSE /\ inbox' = inbox
             /\ bc' = [bc EXCEPT ![c].idx = @ + 1]
             /\ pc' = pc
    /\ UNCHANGED <<notices, clients, message_count, username, msg, nrecv, nbytes, closed, peer,
                   it, target_conn, loaded,
                   reply, chat_client, users_file>>

\* BroadcastStep with an except clause that drops the client whose send
\* raised from the registry.
BroadcastStepEvict(c) ==
    /\ pc[c] = "bc_loop"
    /\ bc[c].idx <= Len(bc[c].snap)
    /\ LET client == bc[c].snap[bc[c].idx] IN
        IF client # bc[c].sender
        THEN /\ inbox' = Sent(inbox, client, bc[c].msg)
             /\ bc' = [bc EXCEPT ![c].idx = @ + 1,
                                 ![c].sent = IF SendOK(client) THEN Append(@, client) ELSE @,
                                 ![c].failed = IF SendOK(client) THEN @ ELSE Append(@, client)]
             /\ clients' = IF SendOK(client) THEN clients ELSE dict_pop(clients, client)
        ELSE /\ inbox' = inbox
             /\ bc' = [bc EXCEPT ![c].idx = @ + 1]
             /\ clients' = clients
    /\ UNCHANGED <<notices, message_count, pc, username, msg, nrecv, nbytes, closed, peer,
                   it, target_conn, loaded,
                   reply, chat_client, users_file>>

\* broadcast: one iteration of the loop over the snapshot.  The sender is
\* skipped; a send that raises is caught and the loop goes on.
BroadcastStep(c) ==
    /\ pc[c] = "bc_loop"
    /\ bc[c].idx <= Len(bc[c].snap)
    /\ LET client == bc[c].snap[bc[c].idx] IN
        IF client # bc[c].sender
        THEN /\ inbox' = Sent(inbox, client, bc[c].msg)
             /\ bc' = [bc EXCEPT ![c].idx = @ + 1,
                                 ![c].sent = IF SendOK(client) THEN Append(@, client) ELSE @,
                                 ![c].failed = IF SendOK(client) THEN @ ELSE Append(@, client)]
        ELSE /\ inbox' = inbox
             /\ bc' = [bc EXCEPT ![c].idx = @ + 1]
    /\ UNCHANGED <<notices, clients, message_count, pc, username, msg, nrecv, nbytes, closed, peer,
                   it, target_conn, loaded,
                   reply, chat_client, users_file>>

\* broadcast: the loop is exhausted and the call returns to its caller.
BroadcastReturn(c) ==
    /\ pc[c] = "bc_loop"
    /\ bc[c].idx > Len(bc[c].snap)
    /\ pc' = [pc EXCEPT ![c] = bc[c].ret]
    /\ bc' = [bc EXCEPT ![c] = NoBroadcast]
    /\ UNCHANGED <<notices, clients, message_count, username, msg, nrecv, nbytes, closed, peer,
                   inbox, it, target_conn, loaded,
                   reply, chat_client, users_file>>

\* handle_client, the recv of the loop returns a payload: decoded, it goes
\* down the if/elif chain, and a plain text enters broadcast; bytes that do
\* not decode raise, and the worker ends in the finally block.  The client
\* sends at most max payloads; what it has sent is read also after it has
\* closed the connection, or after a send of the server has raised on it,
\* but not after a read has returned b'', as the first read then has.
RecvAtMost(c, payloads, max) ==
    /\ pc[c] = "recv"
    /\ nbytes[c] > 0
    /\ nrecv[c] < max
    /\ \E f \in payloads :
          LET m == decode(f).text IN
          /\ nbytes' = [nbytes EXCEPT ![c] = @ + Len(f)]
          /\ IF ~decode(f).ok
             THEN /\ pc' = [pc EXCEPT ![c] = "close"]
                  /\ UNCHANGED <<msg, bc>>
             ELSE /\ msg' = [msg EXCEPT ![c] = m]
                  /\ IF Dispatch(m) = "chat"
                     THEN /\ pc' = [pc EXCEPT ![c] = "bc_snapshot"]
                          /\ bc' = [bc EXCEPT ![c] =
                                      BroadcastCall(ChatFrame(username[c], m), c,
                                                    "count_load", {})]
                     ELSE /\ pc' = [pc EXCEPT ![c] = Dispatch(m)]
                          /\ bc' = bc
    /\ nrecv' = [nrecv EXCEPT ![c] = @ + 1]
    /\ UNCHANGED <<notices, clients, message_count, username, closed, peer, inbox,
                   it, target_conn, loaded,
                   reply, chat_client, users_file>>

\* The same for a client that sends at most MaxMsgs payloads.
Recv(c, payloads) == RecvAtMost(c, payloads, MaxMsgs)

\* handle_client, the recv of the loop returns the empty read of a connection
\* the client has closed: break, and the finally block.
RecvEOF(c) ==
    /\ pc[c] = "recv"
    /\ peer[c] \in {"eof", "broken"}
    /\ msg' = [msg EXCEPT ![c] = ""]
    /\ pc' = [pc EXCEPT ![c] = "close"]
    /\ UNCHANGED <<notices, clients, message_count, username, nrecv, nbytes, closed, peer, inbox,
                   bc, it, target_conn, loaded,
                   reply, chat_client, users_file>>

\* handle_client, the recv of the loop raises ConnectionResetError: the except
\* clause, and the finally block.
RecvReset(c) ==
    /\ pc[c] = "recv"
    /\ peer[c] = "broken"
    /\ pc' = [pc EXCEPT ![c] = "close"]
    /\ UNCHANGED <<notices, clients, message_count, username, msg, nrecv, nbytes, closed, peer,
                   inbox, bc, it, target_conn, loaded,
                   reply, chat_client, users_file>>

\* Reply through the registry: the frame is sent on every connection in it.
ReplyToRegistry(c, frame) ==
    /\ inbox' = [x \in DOMAIN inbox |->
                    IF dict_contains(clients, x) /\ SendOK(x)
                    THEN Append(inbox[x], frame) ELSE inbox[x]]
    /\ pc' = [pc EXCEPT ![c] = IF SendOK(c) THEN "recv" ELSE "close"]

\* A reply on the worker's own connection: the loop goes on, or the send
\* raises and the worker ends in the finally block.
Reply(c, frame) ==
    /\ inbox' = Sent(inbox, c, frame)
    /\ pc' = [pc EXCEPT ![c] = IF SendOK(c) THEN "recv" ELSE "close"]

\* handle_client, /help
Help(c) ==
    /\ pc[c] = "help"
    /\ Reply(c, HelpReply)
    /\ UNCHANGED <<notices, clients, message_count, username, msg, nrecv, nbytes, closed, peer,
                   bc, it, target_conn, loaded,
                   reply, chat_client, users_file>>

\* handle_client, /list: user_list is built; join reads the values of the
\* dict in one go.
List(c) ==
    /\ pc[c] = "list"
    /\ reply' = [reply EXCEPT ![c] = user_list(clients)]
    /\ pc' = [pc EXCEPT ![c] = "list_send"]
    /\ UNCHANGED <<notices, clients, message_count, username, msg, nrecv, nbytes, closed, peer,
                   inbox, bc, it, target_conn, loaded,
                   chat_client, users_file>>

\* handle_client, /list: conn.send of user_list and a newline.
ListSend(c) ==
    /\ pc[c] = "list_send"
    /\ Reply(c, reply[c] \o "\n")
    /\ reply' = [reply EXCEPT ![c] = ""]
    /\ UNCHANGED <<notices, clients, message_count, username, msg, nrecv, nbytes, closed, peer,
                   bc, it, target_conn, loaded,
                   chat_client, users_file>>

\* PrivateParse with the test len(parts) < 2: a payload of two parts goes on
\* to the lookup.
PrivateParseTwoParts(c) ==
    /\ pc[c] = "private"
    /\ IF Len(split(msg[c], 2)) < 2
       THEN /\ Reply(c, InvalidFormat)
            /\ it' = it
       ELSE /\ it' = [it EXCEPT ![c] = [used |-> dict_len(clients), pos |-> 1,
                                        len |-> dict_len(clients)]]
            /\ pc' = [pc EXCEPT ![c] = "lookup"]
            /\ inbox' = inbox
    /\ UNCHANGED <<notices, clients, message_count, username, msg, nrecv, nbytes, closed, peer,
                   bc, target_conn, loaded,
                   reply, chat_client, users_file>>

\* handle_client, /private: split the payload; fewer than 3 parts is answered
\* with Invalid format, otherwise the generator over self.clients.items() is
\* created, which takes an iterator of the live dict.
PrivateParse(c) ==
    /\ pc[c] = "private"
    /\ IF Len(split(msg[c], 2)) < 3
       THEN /\ Reply(c, InvalidFormat)
            /\ it' = it
       ELSE /\ it' = [it EXCEPT ![c] = [used |-> dict_len(clients), pos |-> 1,
                                        len |-> dict_len(clients)]]
            /\ pc' = [pc EXCEPT ![c] = "lookup"]
            /\ inbox' = inbox
    /\ UNCHANGED <<notices, clients, message_count, username, msg, nrecv, nbytes, closed, peer,
                   bc, target_conn, loaded,
                   reply, chat_client, users_file>>

\* The first position from i on that holds a live entry (Len(d) + 1: none).
RECURSIVE next_live(_, _)
next_live(d, i) ==
    IF i > Len(d) THEN i
    ELSE IF d[i].live THEN i
    ELSE next_live(d, i + 1)

\* handle_client, /private: one step of next() over the dict items.  The
\* iterator raises RuntimeError when the dict no longer has the size it had
\* when the iterator was made, or yields an entry it did not expect; at the
\* end of the table no session has the name and User not found is sent.
Lookup(c) ==
    /\ pc[c] = "lookup"
    /\ LET i == next_live(clients, it[c].pos)
           target_username == split(msg[c], 2)[2]
       IN
       IF it[c].used # dict_len(clients)
       THEN /\ pc' = [pc EXCEPT ![c] = "close"]
            /\ it' = [it EXCEPT ![c] = NoIter]
            /\ UNCHANGED <<inbox, target_conn>>
       ELSE IF i > Len(clients)
       THEN /\ pc' = [pc EXCEPT ![c] = "not_found"]
            /\ it' = [it EXCEPT ![c] = NoIter]
            /\ target_conn' = [target_conn EXCEPT ![c] = 0]
            /\ inbox' = inbox
       ELSE IF it[c].len = 0
       THEN /\ pc' = [pc EXCEPT ![c] = "close"]
            /\ it' = [it EXCEPT ![c] = NoIter]
            /\ UNCHANGED <<inbox, target_conn>>
       ELSE IF clients[i].user = target_username
       THEN /\ target_conn' = [target_conn EXCEPT ![c] = clients[i].conn]
            /\ pc' = [pc EXCEPT ![c] = "private_send"]
            /\ it' = [it EXCEPT ![c] = NoIter]
            /\ inbox' = inbox
       ELSE /\ it' = [it EXCEPT ![c] = [@ EXCEPT !.pos = i + 1, !.len = @ - 1]]
            /\ UNCHANGED <<pc, inbox, target_conn>>
    /\ UNCHANGED <<notices, clients, message_count, username, msg, nrecv, nbytes, closed, peer,
                   bc, loaded,
                   reply, chat_client, users_file>>

\* handle_client, /private: target_conn is None, the else branch.
NotFoundSend(c) ==
    /\ pc[c] = "not_found"
    /\ Reply(c, NotFound)
    /\ UNCHANGED <<notices, clients, message_count, username, msg, nrecv, nbytes, closed, peer,
                   bc, it, target_conn, loaded,
                   reply, chat_client, users_file>>

\* handle_client, /private: target_conn.send, outside any try of its own, so
\* a failure ends the sender's worker.
PrivateSend(c) ==
    /\ pc[c] = "private_send"
    /\ inbox' = Sent(inbox, target_conn[c], PrivateFrame(username[c], split(msg[c], 2)[3]))
    /\ pc' = [pc EXCEPT ![c] = IF SendOK(target_conn[c]) THEN "private_echo" ELSE "close"]
    /\ UNCHANGED <<notices, clients, message_count, username, msg, nrecv, nbytes, closed, peer,
                   bc, it, target_conn, loaded,
                   reply, chat_client, users_file>>

\* handle_client, /private: the copy to the sender.
PrivateEcho(c) ==
    /\ pc[c] = "private_echo"
    /\ Reply(c, PrivateEchoFrame(split(msg[c], 2)[2], split(msg[c], 2)[3]))
    /\ UNCHANGED <<notices, clients, message_count, username, msg, nrecv, nbytes, closed, peer,
                   bc, it, target_conn, loaded,
                   reply, chat_client, users_file>>

\* send_stats: uptime is the whole number of seconds since start_time; the
\* f-string is built up to len(self.clients).
send_stats(c, uptimes) ==
    /\ pc[c] = "stats"
    /\ \E uptime \in uptimes :
          notices' = [notices EXCEPT ![c].uptime = uptime]
    /\ reply' = [reply EXCEPT ![c] = stats_head(clients)]
    /\ pc' = [pc EXCEPT ![c] = "stats_count"]
    /\ UNCHANGED <<clients, message_count, username, msg, nrecv, nbytes, closed, peer,
                   inbox, bc, it, target_conn, loaded,
                   chat_client, users_file>>

\* send_stats: the rest of the f-string, from self.message_count on.
StatsCount(c) ==
    /\ pc[c] = "stats_count"
    /\ reply' = [reply EXCEPT ![c] = @ \o stats_tail(message_count, notices[c].uptime)]
    /\ pc' = [pc EXCEPT ![c] = "stats_send"]
    /\ UNCHANGED <<notices, clients, message_count, username, msg, nrecv, nbytes, closed, peer,
                   inbox, bc, it, target_conn, loaded,
                   chat_client, users_file>>

\* send_stats: conn.send of stats_message.
StatsSend(c) ==
    /\ pc[c] = "stats_send"
    /\ Reply(c, reply[c])
    /\ reply' = [reply EXCEPT ![c] = ""]
    /\ UNCHANGED <<notices, clients, message_count, username, msg, nrecv, nbytes, closed, peer,
                   bc, it, target_conn, loaded,
                   chat_client, users_file>>

\* self.message_count += 1, the load of the attribute
CountLoad(c) ==
    /\ pc[c] = "count_load"
    /\ loaded' = [loaded EXCEPT ![c] = message_count]
    /\ pc' = [pc EXCEPT ![c] = "count_store"]
    /\ UNCHANGED <<notices, clients, message_count, username, msg, nrecv, nbytes, closed, peer,
                   inbox, bc, it, target_conn,
                   reply, chat_client, users_file>>

\* self.message_count += 1, the store of the sum
CountStore(c) ==
    /\ pc[c] = "count_store"
    /\ message_count' = loaded[c] + 1
    /\ loaded' = [loaded EXCEPT ![c] = 0]
    /\ pc' = [pc EXCEPT ![c] = "recv"]
    /\ UNCHANGED <<notices, clients, username, msg, nrecv, nbytes, closed, peer, inbox, bc, it,
                   target_conn,
                   reply, chat_client, users_file>>

\* finally: conn.close()
Close(c) ==
    /\ pc[c] = "close"
    /\ closed' = [closed EXCEPT ![c] = TRUE]
    /\ pc' = [pc EXCEPT ![c] = "cleanup"]
    /\ UNCHANGED <<notices, clients, message_count, username, msg, nrecv, nbytes, peer, inbox,
                   bc, it, target_conn, loaded,
                   reply, chat_client, users_file>>

\* Cleanup without the pop: the thread ends and its entry stays.
CleanupKeep(c) ==
    /\ pc[c] = "cleanup"
    /\ pc' = [pc EXCEPT ![c] = "done"]
    /\ UNCHANGED <<username, clients, bc, notices, message_count, msg, nrecv, nbytes, closed,
                   peer, inbox, it, target_conn, loaded,
                   reply, chat_client, users_file>>

\* Cleanup without the test conn in self.clients: the leave notice is
\* broadcast for a connection that was never registered too.
CleanupAlways(c) ==
    /\ pc[c] = "cleanup"
    /\ clients' = dict_pop(clients, c)
    /\ bc' = [bc EXCEPT ![c] = BroadcastCall(LeaveNotice(username[c]), c, "done", {})]
    /\ pc' = [pc EXCEPT ![c] = "bc_snapshot"]
    /\ notices' = [notices EXCEPT ![c].leave = @ + 1]
    /\ UNCHANGED <<username, message_count, msg, nrecv, nbytes, closed, peer, inbox, it,
                   target_conn, loaded,
                   reply, chat_client, users_file>>

\* Cleanup that reads the username with self.clients[conn] in place of pop:
\* the leave notice is broadcast while the entry is still in the registry.
CleanupNoPop(c) ==
    /\ pc[c] = "cleanup"
    /\ IF dict_contains(clients, c)
       THEN /\ username' = [username EXCEPT ![c] = dict_get(clients, c)]
            /\ clients' = clients
            /\ bc' = [bc EXCEPT ![c] =
                        BroadcastCall(LeaveNotice(dict_get(clients, c)), c, "done", {})]
            /\ pc' = [pc EXCEPT ![c] = "bc_snapshot"]
            /\ notices' = [notices EXCEPT ![c].leave = @ + 1]
       ELSE /\ pc' = [pc EXCEPT ![c] = "done"]
            /\ UNCHANGED <<username, clients, bc, notices>>
    /\ UNCHANGED <<message_count, msg, nrecv, nbytes, closed, peer, inbox, it,
                   target_conn, loaded,
                   reply, chat_client, users_file>>

\* finally: a connection that is in the registry is popped and its leave
\* notice broadcast; then the thread ends.
Cleanup(c) ==
    /\ pc[c] = "cleanup"
    /\ IF dict_contains(clients, c)
       THEN /\ username' = [username EXCEPT ![c] = dict_get(clients, c)]
            /\ clients' = dict_pop(clients, c)
            /\ bc' = [bc EXCEPT ![c] =
                        BroadcastCall(LeaveNotice(dict_get(clients, c)), c, "done", {})]
            /\ pc' = [pc EXCEPT ![c] = "bc_snapshot"]
            /\ notices' = [notices EXCEPT ![c].leave = @ + 1]
       ELSE /\ pc' = [pc EXCEPT ![c] = "done"]
            /\ UNCHANGED <<username, clients, bc, notices>>
    /\ UNCHANGED <<message_count, msg, nrecv, nbytes, closed, peer, inbox, it,
                   target_conn, loaded,
                   reply, chat_client, users_file>>

\* ------------------------------------------------------------------ client

\* The variables of the server, which no step of the client touches.
server_vars ==
    <<clients, message_count, pc, username, msg, nrecv, nbytes, closed, peer, inbox,
      bc, it, target_conn, loaded, reply, notices>>

\* str.lower().  The characters that have a lower case of one character, in
\* runs <<first, last, step, lower case of first>>: the lower case of the
\* character n of a run is as far from that of the first as n is from first.
LowerRanges ==
    <<<<65, 90, 1, 97>>, <<192, 214, 1, 224>>, <<216, 222, 1, 248>>, <<256, 302, 2, 257>>,
       <<306, 310, 2, 307>>, <<313, 327, 2, 314>>, <<330, 374, 2, 331>>, <<376, 376, 1, 255>>,
       <<377, 381, 2, 378>>, <<385, 385, 1, 595>>, <<386, 388, 2, 387>>, <<390, 390, 1, 596>>,
       <<391, 391, 1, 392>>, <<393, 394, 1, 598>>, <<395, 395, 1, 396>>, <<398, 398, 1, 477>>,
       <<399, 399, 1, 601>>, <<400, 400, 1, 603>>, <<401, 401, 1, 402>>, <<403, 403, 1, 608>>,
       <<404, 404, 1, 611>>, <<406, 406, 1, 617>>, <<407, 407, 1, 616>>, <<408, 408, 1, 409>>,
       <<412, 412, 1, 623>>, <<413, 413, 1, 626>>, <<415, 415, 1, 629>>, <<416, 420, 2, 417>>,
       <<422, 422, 1, 640>>, <<423, 423, 1, 424>>, <<425, 425, 1, 643>>, <<428, 428, 1, 429>>,
       <<430, 430, 1, 648>>, <<431, 431, 1, 432>>, <<433, 434, 1, 650>>, <<435, 437, 2, 436>>,
       <<439, 439, 1, 658>>, <<440, 440, 1, 441>>, <<444, 444, 1, 445>>, <<452, 452, 1, 454>>,
       <<453, 453, 1, 454>>, <<455, 455, 1, 457>>, <<456, 456, 1, 457>>, <<458, 458, 1, 460>>,
       <<459, 475, 2, 460>>, <<478, 494, 2, 479>>, <<497, 497, 1, 499>>, <<498, 500, 2, 499>>,
       <<502, 502, 1, 405>>, <<503, 503, 1, 447>>, <<504, 542, 2, 505>>, <<544, 544, 1, 414>>,
       <<546, 562, 2, 547>>, <<570, 570, 1, 11365>>, <<571, 571, 1, 572>>, <<573, 573, 1, 410>>,
       <<574, 574, 1, 11366>>, <<577, 577, 1, 578>>, <<579, 579, 1, 384>>, <<580, 580, 1, 649>>,
       <<581, 581, 1, 652>>, <<582, 590, 2, 583>>, <<880, 882, 2, 881>>, <<886, 886, 1, 887>>,
       <<895, 895, 1, 1011>>, <<902, 902, 1, 940>>, <<904, 906, 1, 941>>, <<908, 908, 1, 972>>,
       <<910, 911, 1, 973>>, <<913, 929, 1, 945>>, <<932, 939, 1, 964>>, <<975, 975, 1, 983>>,
       <<984, 1006, 2, 985>>, <<1012, 1012, 1, 952>>, <<1015, 1015, 1, 1016>>, <<1017, 1017, 1, 1010>>,
       <<1018, 1018, 1, 1019>>, <<1021, 1023, 1, 891>>, <<1024, 1039, 1, 1104>>, <<1040, 1071, 1, 1072>>,
       <<1120, 1152, 2, 1121>>, <<1162, 1214, 2, 1163>>, <<1216, 1216, 1, 1231>>, <<1217, 1229, 2, 1218>>,
       <<1232, 1326, 2, 1233>>, <<1329, 1366, 1, 1377>>, <<4256, 4293, 1, 11520>>, <<4295, 4295, 1, 11559>>,
       <<4301, 4301, 1, 11565>>, <<5024, 5103, 1, 43888>>, <<5104, 5109, 1, 5112>>, <<7312, 7354, 1, 4304>>,
       <<7357, 7359, 1, 4349>>, <<7680, 7828, 2, 7681>>, <<7838, 7838, 1, 223>>, <<7840, 7934, 2, 7841>>,
       <<7944, 7951, 1, 7936>>, <<7960, 7965, 1, 7952>>, <<7976, 7983, 1, 7968>>, <<7992, 7999, 1, 7984>>,
       <<8008, 8013, 1, 8000>>, <<8025, 8031, 2, 8017>>, <<8040, 8047, 1, 8032>>, <<8072, 8079, 1, 8064>>,
       <<8088, 8095, 1, 8080>>, <<8104, 8111, 1, 8096>>, <<8120, 8121, 1, 8112>>, <<8122, 8123, 1, 8048>>,
       <<8124, 8124, 1, 8115>>, <<8136, 8139, 1, 8050>>, <<8140, 8140, 1, 8131>>, <<8152, 8153, 1, 8144>>,
       <<8154, 8155, 1, 8054>>, <<8168, 8169, 1, 8160>>, <<8170, 8171, 1, 8058>>, <<8172, 8172, 1, 8165>>,
       <<8184, 8185, 1, 8056>>, <<8186, 8187, 1, 8060>>, <<8188, 8188, 1, 8179>>, <<8486, 8486, 1, 969>>,
       <<8490, 8490, 1, 107>>, <<8491, 8491, 1, 229>>, <<8498, 8498, 1, 8526>>, <<8544, 8559, 1, 8560>>,
       <<8579, 8579, 1, 8580>>, <<9398, 9423, 1, 9424>>, <<11264, 11311, 1, 11312>>, <<11360, 11360, 1, 11361>>,
       <<11362, 11362, 1, 619>>, <<11363, 11363, 1, 7549>>, <<11364, 11364, 1, 637>>, <<11367, 11371, 2, 11368>>,
       <<11373, 11373, 1, 593>>, <<11374, 11374, 1, 625>>, <<11375, 11375, 1, 592>>, <<11376, 11376, 1, 594>>,
       <<11378, 11378, 1, 11379>>, <<11381, 11381, 1, 11382>>, <<11390, 11391, 1, 575>>, <<11392, 11490, 2, 11393>>,
       <<11499, 11501, 2, 11500>>, <<11506, 11506, 1, 11507>>, <<42560, 42604, 2, 42561>>, <<42624, 42650, 2, 42625>>,
       <<42786, 42798, 2, 42787>>, <<42802, 42862, 2, 42803>>, <<42873, 42875, 2, 42874>>, <<42877, 42877, 1, 7545>>,
       <<42878, 42886, 2, 42879>>, <<42891, 42891, 1, 42892>>, <<42893, 42893, 1, 613>>, <<42896, 42898, 2, 42897>>,
       <<42902, 42920, 2, 42903>>, <<42922, 42922, 1, 614>>, <<42923, 42923, 1, 604>>, <<42924, 42924, 1, 609>>,
       <<42925, 42925, 1, 620>>, <<42926, 42926, 1, 618>>, <<42928, 42928, 1, 670>>, <<42929, 42929, 1, 647>>,
       <<42930, 42930, 1, 669>>, <<42931, 42931, 1, 43859>>, <<42932, 42946, 2, 42933>>, <<42948, 42948, 1, 42900>>,
       <<42949, 42949, 1, 642>>, <<42950, 42950, 1, 7566>>, <<42951, 42953, 2, 42952>>, <<42960, 42960, 1, 42961>>,
       <<42966, 42968, 2, 42967>>, <<42997, 42997, 1, 42998>>, <<65313, 65338, 1, 65345>>, <<66560, 66599, 1, 66600>>,
       <<66736, 66771, 1, 66776>>, <<66928, 66938, 1, 66967>>, <<66940, 66954, 1, 66979>>, <<66956, 66962, 1, 66995>>,
       <<66964, 66965, 1, 67003>>, <<68736, 68786, 1, 68800>>, <<71840, 71871, 1, 71872>>, <<93760, 93791, 1, 93792>>,
       <<125184, 125217, 1, 125218>>>>

\* The cased characters that are not case-ignorable, in runs <<first, last>>.
CasedRanges ==
    <<<<65, 90>>, <<97, 122>>, <<170, 170>>, <<181, 181>>, <<186, 186>>, <<192, 214>>,
       <<216, 246>>, <<248, 442>>, <<444, 447>>, <<452, 659>>, <<661, 687>>, <<880, 883>>,
       <<886, 887>>, <<891, 893>>, <<895, 895>>, <<902, 902>>, <<904, 906>>, <<908, 908>>,
       <<910, 929>>, <<931, 1013>>, <<1015, 1153>>, <<1162, 1327>>, <<1329, 1366>>, <<1376, 1416>>,
       <<4256, 4293>>, <<4295, 4295>>, <<4301, 4301>>, <<4304, 4346>>, <<4349, 4351>>, <<5024, 5109>>,
       <<5112, 5117>>, <<7296, 7304>>, <<7312, 7354>>, <<7357, 7359>>, <<7424, 7467>>, <<7531, 7543>>,
       <<7545, 7578>>, <<7680, 7957>>, <<7960, 7965>>, <<7968, 8005>>, <<8008, 8013>>, <<8016, 8023>>,
       <<8025, 8025>>, <<8027, 8027>>, <<8029, 8029>>, <<8031, 8061>>, <<8064, 8116>>, <<8118, 8124>>,
       <<8126, 8126>>, <<8130, 8132>>, <<8134, 8140>>, <<8144, 8147>>, <<8150, 8155>>, <<8160, 8172>>,
       <<8178, 8180>>, <<8182, 8188>>, <<8450, 8450>>, <<8455, 8455>>, <<8458, 8467>>, <<8469, 8469>>,
       <<8473, 8477>>, <<8484, 8484>>, <<8486, 8486>>, <<8488, 8488>>, <<8490, 8493>>, <<8495, 8500>>,
       <<8505, 8505>>, <<8508, 8511>>, <<8517, 8521>>, <<8526, 8526>>, <<8544, 8575>>, <<8579, 8580>>,
       <<9398, 9449>>, <<11264, 11387>>, <<11390, 11492>>, <<11499, 11502>>, <<11506, 11507>>, <<11520, 11557>>,
       <<11559, 11559>>, <<11565, 11565>>, <<42560, 42605>>, <<42624, 42651>>, <<42786, 42863>>, <<42865, 42887>>,
       <<42891, 42894>>, <<42896, 42954>>, <<42960, 42961>>, <<42963, 42963>>, <<42965, 42969>>, <<42997, 42998>>,
       <<43002, 43002>>, <<43824, 43866>>, <<43872, 43880>>, <<43888, 43967>>, <<64256, 64262>>, <<64275, 64279>>,
       <<65313, 65338>>, <<65345, 65370>>, <<66560, 66639>>, <<66736, 66771>>, <<66776, 66811>>, <<66928, 66938>>,
       <<66940, 66954>>, <<66956, 66962>>, <<66964, 66965>>, <<66967, 66977>>, <<66979, 66993>>, <<66995, 67001>>,
       <<67003, 67004>>, <<68736, 68786>>, <<68800, 68850>>, <<71840, 71903>>, <<93760, 93823>>, <<119808, 119892>>,
       <<119894, 119964>>, <<119966, 119967>>, <<119970, 119970>>, <<119973, 119974>>, <<119977, 119980>>, <<119982, 119993>>,
       <<119995, 119995>>, <<119997, 120003>>, <<120005, 120069>>, <<120071, 120074>>, <<120077, 120084>>, <<120086, 120092>>,
       <<120094, 120121>>, <<120123, 120126>>, <<120128, 120132>>, <<120134, 120134>>, <<120138, 120144>>, <<120146, 120485>>,
       <<120488, 120512>>, <<120514, 120538>>, <<120540, 120570>>, <<120572, 120596>>, <<120598, 120628>>, <<120630, 120654>>,
       <<120656, 120686>>, <<120688, 120712>>, <<120714, 120744>>, <<120746, 120770>>, <<120772, 120779>>, <<122624, 122633>>,
       <<122635, 122654>>, <<125184, 125251>>, <<127280, 127305>>, <<127312, 127337>>, <<127344, 127369>>>>

\* The case-ignorable characters, in runs <<first, last>>.
CaseIgnorableRanges ==
    <<<<39, 39>>, <<46, 46>>, <<58, 58>>, <<94, 94>>, <<96, 96>>, <<168, 168>>,
       <<173, 173>>, <<175, 175>>, <<180, 180>>, <<183, 184>>, <<688, 879>>, <<884, 885>>,
       <<890, 890>>, <<900, 901>>, <<903, 903>>, <<1155, 1161>>, <<1369, 1369>>, <<1375, 1375>>,
       <<1425, 1469>>, <<1471, 1471>>, <<1473, 1474>>, <<1476, 1477>>, <<1479, 1479>>, <<1524, 1524>>,
       <<1536, 1541>>, <<1552, 1562>>, <<1564, 1564>>, <<1600, 1600>>, <<1611, 1631>>, <<1648, 1648>>,
       <<1750, 1757>>, <<1759, 1768>>, <<1770, 1773>>, <<1807, 1807>>, <<1809, 1809>>, <<1840, 1866>>,
       <<1958, 1968>>, <<2027, 2037>>, <<2042, 2042>>, <<2045, 2045>>, <<2070, 2093>>, <<2137, 2139>>,
       <<2184, 2184>>, <<2192, 2193>>, <<2200, 2207>>, <<2249, 2306>>, <<2362, 2362>>, <<2364, 2364>>,
       <<2369, 2376>>, <<2381, 2381>>, <<2385, 2391>>, <<2402, 2403>>, <<2417, 2417>>, <<2433, 2433>>,
       <<2492, 2492>>, <<2497, 2500>>, <<2509, 2509>>, <<2530, 2531>>, <<2558, 2558>>, <<2561, 2562>>,
       <<2620, 2620>>, <<2625, 2626>>, <<2631, 2632>>, <<2635, 2637>>, <<2641, 2641>>, <<2672, 2673>>,
       <<2677, 2677>>, <<2689, 2690>>, <<2748, 2748>>, <<2753, 2757>>, <<2759, 2760>>, <<2765, 2765>>,
       <<2786, 2787>>, <<2810, 2815>>, <<2817, 2817>>, <<2876, 2876>>, <<2879, 2879>>, <<2881, 2884>>,
       <<2893, 2893>>, <<2901, 2902>>, <<2914, 2915>>, <<2946, 2946>>, <<3008, 3008>>, <<3021, 3021>>,
       <<3072, 3072>>, <<3076, 3076>>, <<3132, 3132>>, <<3134, 3136>>, <<3142, 3144>>, <<3146, 3149>>,
       <<3157, 3158>>, <<3170, 3171>>, <<3201, 3201>>, <<3260, 3260>>, <<3263, 3263>>, <<3270, 3270>>,
       <<3276, 3277>>, <<3298, 3299>>, <<3328, 3329>>, <<3387, 3388>>, <<3393, 3396>>, <<3405, 3405>>,
       <<3426, 3427>>, <<3457, 3457>>, <<3530, 3530>>, <<3538, 3540>>, <<3542, 3542>>, <<3633, 3633>>,
       <<3636, 3642>>, <<3654, 3662>>, <<3761, 3761>>, <<3764, 3772>>, <<3782, 3782>>, <<3784, 3789>>,
       <<3864, 3865>>, <<3893, 3893>>, <<3895, 3895>>, <<3897, 3897>>, <<3953, 3966>>, <<3968, 3972>>,
       <<3974, 3975>>, <<3981, 3991>>, <<3993, 4028>>, <<4038, 4038>>, <<4141, 4144>>, <<4146, 4151>>,
       <<4153, 4154>>, <<4157, 4158>>, <<4184, 4185>>, <<4190, 4192>>, <<4209, 4212>>, <<4226, 4226>>,
       <<4229, 4230>>, <<4237, 4237>>, <<4253, 4253>>, <<4348, 4348>>, <<4957, 4959>>, <<5906, 5908>>,
       <<5938, 5939>>, <<5970, 5971>>, <<6002, 6003>>, <<6068, 6069>>, <<6071, 6077>>, <<6086, 6086>>,
       <<6089, 6099>>, <<6103, 6103>>, <<6109, 6109>>, <<6155, 6159>>, <<6211, 6211>>, <<6277, 6278>>,
       <<6313, 6313>>, <<6432, 6434>>, <<6439, 6440>>, <<6450, 6450>>, <<6457, 6459>>, <<6679, 6680>>,
       <<6683, 6683>>, <<6742, 6742>>, <<6744, 6750>>, <<6752, 6752>>, <<6754, 6754>>, <<6757, 6764>>,
       <<6771, 6780>>, <<6783, 6783>>, <<6823, 6823>>, <<6832, 6862>>, <<6912, 6915>>, <<6964, 6964>>,
       <<6966, 6970>>, <<6972, 6972>>, <<6978, 6978>>, <<7019, 7027>>, <<7040, 7041>>, <<7074, 7077>>,
       <<7080, 7081>>, <<7083, 7085>>, <<7142, 7142>>, <<7144, 7145>>, <<7149, 7149>>, <<7151, 7153>>,
       <<7212, 7219>>, <<7222, 7223>>, <<7288, 7293>>, <<7376, 7378>>, <<7380, 7392>>, <<7394, 7400>>,
       <<7405, 7405>>, <<7412, 7412>>, <<7416, 7417>>, <<7468, 7530>>, <<7544, 7544>>, <<7579, 7679>>,
       <<8125, 8125>>, <<8127, 8129>>, <<8141, 8143>>, <<8157, 8159>>, <<8173, 8175>>, <<8189, 8190>>,
       <<8203, 8207>>, <<8216, 8217>>, <<8228, 8228>>, <<8231, 8231>>, <<8234, 8238>>, <<8288, 8292>>,
       <<8294, 8303>>, <<8305, 8305>>, <<8319, 8319>>, <<8336, 8348>>, <<8400, 8432>>, <<11388, 11389>>,
       <<11503, 11505>>, <<11631, 11631>>, <<11647, 11647>>, <<11744, 11775>>, <<11823, 11823>>, <<12293, 12293>>,
       <<12330, 12333>>, <<12337, 12341>>, <<12347, 12347>>, <<12441, 12446>>, <<12540, 12542>>, <<40981, 40981>>,
       <<42232, 42237>>, <<42508, 42508>>, <<42607, 42610>>, <<42612, 42621>>, <<42623, 42623>>, <<42652, 42655>>,
       <<42736, 42737>>, <<42752, 42785>>, <<42864, 42864>>, <<42888, 42890>>, <<42994, 42996>>, <<43000, 43001>>,
       <<43010, 43010>>, <<43014, 43014>>, <<43019, 43019>>, <<43045, 43046>>, <<43052, 43052>>, <<43204, 43205>>,
       <<43232, 43249>>, <<43263, 43263>>, <<43302, 43309>>, <<43335, 43345>>, <<43392, 43394>>, <<43443, 43443>>,
       <<43446, 43449>>, <<43452, 43453>>, <<43471, 43471>>, <<43493, 43494>>, <<43561, 43566>>, <<43569, 43570>>,
       <<43573, 43574>>, <<43587, 43587>>, <<43596, 43596>>, <<43632, 43632>>, <<43644, 43644>>, <<43696, 43696>>,
       <<43698, 43700>>, <<43703, 43704>>, <<43710, 43711>>, <<43713, 43713>>, <<43741, 43741>>, <<43756, 43757>>,
       <<43763, 43764>>, <<43766, 43766>>, <<43867, 43871>>, <<43881, 43883>>, <<44005, 44005>>, <<44008, 44008>>,
       <<44013, 44013>>, <<64286, 64286>>, <<64434, 64450>>, <<65024, 65039>>, <<65043, 65043>>, <<65056, 65071>>,
       <<65106, 65106>>, <<65109, 65109>>, <<65279, 65279>>, <<65287, 65287>>, <<65294, 65294>>, <<65306, 65306>>,
       <<65342, 65342>>, <<65344, 65344>>, <<65392, 65392>>, <<65438, 65439>>, <<65507, 65507>>, <<65529, 65531>>,
       <<66045, 66045>>, <<66272, 66272>>, <<66422, 66426>>, <<67456, 67461>>, <<67463, 67504>>, <<67506, 67514>>,
       <<68097, 68099>>, <<68101, 68102>>, <<68108, 68111>>, <<68152, 68154>>, <<68159, 68159>>, <<68325, 68326>>,
       <<68900, 68903>>, <<69291, 69292>>, <<69446, 69456>>, <<69506, 69509>>, <<69633, 69633>>, <<69688, 69702>>,
       <<69744, 69744>>, <<69747, 69748>>, <<69759, 69761>>, <<69811, 69814>>, <<69817, 69818>>, <<69821, 69821>>,
       <<69826, 69826>>, <<69837, 69837>>, <<69888, 69890>>, <<69927, 69931>>, <<69933, 69940>>, <<70003, 70003>>,
       <<70016, 70017>>, <<70070, 70078>>, <<70089, 70092>>, <<70095, 70095>>, <<70191, 70193>>, <<70196, 70196>>,
       <<70198, 70199>>, <<70206, 70206>>, <<70367, 70367>>, <<70371, 70378>>, <<70400, 70401>>, <<70459, 70460>>,
       <<70464, 70464>>, <<70502, 70508>>, <<70512, 70516>>, <<70712, 70719>>, <<70722, 70724>>, <<70726, 70726>>,
       <<70750, 70750>>, <<70835, 70840>>, <<70842, 70842>>, <<70847, 70848>>, <<70850, 70851>>, <<71090, 71093>>,
       <<71100, 71101>>, <<71103, 71104>>, <<71132, 71133>>, <<71219, 71226>>, <<71229, 71229>>, <<71231, 71232>>,
       <<71339, 71339>>, <<71341, 71341>>, <<71344, 71349>>, <<71351, 71351>>, <<71453, 71455>>, <<71458, 71461>>,
       <<71463, 71467>>, <<71727, 71735>>, <<71737, 71738>>, <<71995, 71996>>, <<71998, 71998>>, <<72003, 72003>>,
       <<72148, 72151>>, <<72154, 72155>>, <<72160, 72160>>, <<72193, 72202>>, <<72243, 72248>>, <<72251, 72254>>,
       <<72263, 72263>>, <<72273, 72278>>, <<72281, 72283>>, <<72330, 72342>>, <<72344, 72345>>, <<72752, 72758>>,
       <<72760, 72765>>, <<72767, 72767>>, <<72850, 72871>>, <<72874, 72880>>, <<72882, 72883>>, <<72885, 72886>>,
       <<73009, 73014>>, <<73018, 73018>>, <<73020, 73021>>, <<73023, 73029>>, <<73031, 73031>>, <<73104, 73105>>,
       <<73109, 73109>>, <<73111, 73111>>, <<73459, 73460>>, <<78896, 78904>>, <<92912, 92916>>, <<92976, 92982>>,
       <<92992, 92995>>, <<94031, 94031>>, <<94095, 94111>>, <<94176, 94177>>, <<94179, 94180>>, <<110576, 110579>>,
       <<110581, 110587>>, <<110589, 110590>>, <<113821, 113822>>, <<113824, 113827>>, <<118528, 118573>>, <<118576, 118598>>,
       <<119143, 119145>>, <<119155, 119170>>, <<119173, 119179>>, <<119210, 119213>>, <<119362, 119364>>, <<121344, 121398>>,
       <<121403, 121452>>, <<121461, 121461>>, <<121476, 121476>>, <<121499, 121503>>, <<121505, 121519>>, <<122880, 122886>>,
       <<122888, 122904>>, <<122907, 122913>>, <<122915, 122916>>, <<122918, 122922>>, <<123184, 123197>>, <<123566, 123566>>,
       <<123628, 123631>>, <<125136, 125142>>, <<125252, 125259>>, <<127995, 127999>>, <<917505, 917505>>, <<917536, 917631>>,
       <<917760, 917999>>>>

in_ranges(n, ranges) == \E i \in 1..Len(ranges) : ranges[i][1] <= n /\ n <= ranges[i][2]

\* The lower case of the character n, when it is one character.
lower_point(n) ==
    LET runs == {i \in 1..Len(LowerRanges) :
                    /\ LowerRanges[i][1] <= n /\ n <= LowerRanges[i][2]
                    /\ (n - LowerRanges[i][1]) % LowerRanges[i][3] = 0} IN
    IF runs = {} THEN n
    ELSE LET run == LowerRanges[CHOOSE i \in runs : TRUE] IN run[4] + (n - run[1])

\* The capital sigma U+03A3 is a final one when a cased character comes
\* before it and none after it, case-ignorable characters being passed over.
final_sigma(points, i) ==
    LET before == {j \in 1..(i - 1) : ~in_ranges(points[j], CaseIgnorableRanges)}
        after == {j \in (i + 1)..Len(points) : ~in_ranges(points[j], CaseIgnorableRanges)} IN
    /\ before # {}
    /\ in_ranges(points[CHOOSE j \in before : \A k \in before : k <= j], CasedRanges)
    /\ \/ after = {}
       \/ ~in_ranges(points[CHOOSE j \in after : \A k \in after : j <= k], CasedRanges)

\* The lower case of the character at i: U+03A3 gives U+03C2 when final and
\* U+03C3 otherwise, U+0130 gives the two characters U+0069 U+0307.
lower_at(points, i) ==
    IF points[i] = 931 THEN (IF final_sigma(points, i) THEN <<962>> ELSE <<963>>)
    ELSE IF points[i] = 304 THEN <<105, 775>>
    ELSE <<lower_point(points[i])>>

lower(s) ==
    LET points == code_points(s) IN
    text_of(concat_range([i \in 1..Len(points) |-> lower_at(points, i)], 1, Len(points), <<>>))

\* ------------------------------------------------------------------ SHA-256
\* hashlib.sha256 (FIPS 180-4).  A word of 32 bits is the pair <<high, low>>
\* of its halves of 16 bits.

\* The constants K and the initial hash value.
SHA256_K ==
    <<<<17034, 12184>>, <<28983, 17553>>, <<46528, 64463>>, <<59829, 56229>>,
      <<14678, 49755>>, <<23025, 4593>>, <<37439, 33444>>, <<43804, 24277>>,
      <<55303, 43672>>, <<4739, 23297>>, <<9265, 34238>>, <<21772, 32195>>,
      <<29374, 23924>>, <<32990, 45566>>, <<39900, 1703>>, <<49563, 61812>>,
      <<58523, 27073>>, <<61374, 18310>>, <<4033, 40390>>, <<9228, 41420>>,
      <<11753, 11375>>, <<19060, 33962>>, <<23728, 43484>>, <<30457, 35034>>,
      <<38974, 20818>>, <<43057, 50797>>, <<45059, 10184>>, <<48985, 32711>>,
      <<50912, 3059>>, <<54695, 37191>>, <<1738, 25425>>, <<5161, 10599>>,
      <<10167, 2693>>, <<11803, 8504>>, <<19756, 28156>>, <<21304, 3347>>,
      <<25866, 29524>>, <<30314, 2747>>, <<33218, 51502>>, <<37490, 11397>>,
      <<41663, 59553>>, <<43034, 26187>>, <<49739, 35696>>, <<51052, 20899>>,
      <<53650, 59417>>, <<54937, 1572>>, <<62478, 13701>>, <<4202, 41072>>,
      <<6564, 49430>>, <<7735, 27656>>, <<10056, 30540>>, <<13488, 48309>>,
      <<14620, 3251>>, <<20184, 43594>>, <<23452, 51791>>, <<26670, 28659>>,
      <<29839, 33518>>, <<30885, 25455>>, <<33992, 30740>>, <<36039, 520>>,
      <<37054, 65530>>, <<42064, 27883>>, <<48889, 41975>>, <<50801, 30962>>>>

SHA256_H0 ==
    <<<<27145, 58983>>, <<47975, 44677>>, <<15470, 62322>>, <<42319, 62778>>,
      <<20750, 21119>>, <<39685, 26764>>, <<8067, 55723>>, <<23520, 52505>>>>


Half == 65536

\* Bitwise and, exclusive or of two numbers of 4 bits.
And4 ==
    [x \in 0..15 |-> [y \in 0..15 |->
        ((x % 2) * (y % 2)) + (2 * (((x \div 2) % 2) * ((y \div 2) % 2)))
            + (4 * (((x \div 4) % 2) * ((y \div 4) % 2))) + (8 * ((x \div 8) * (y \div 8)))]]

Xor4 ==
    [x \in 0..15 |-> [y \in 0..15 |->
        ((x + y) % 2) + (2 * (((x \div 2) + (y \div 2)) % 2))
            + (4 * (((x \div 4) + (y \div 4)) % 2)) + (8 * (((x \div 8) + (y \div 8)) % 2))]]

\* Bitwise and, exclusive or of two halves.
and16(x, y) ==
    (4096 * And4[x \div 4096][y \div 4096]) + (256 * And4[(x \div 256) % 16][(y \div 256) % 16])
        + (16 * And4[(x \div 16) % 16][(y \div 16) % 16]) + And4[x % 16][y % 16]

xor16(x, y) ==
    (4096 * Xor4[x \div 4096][y \div 4096]) + (256 * Xor4[(x \div 256) % 16][(y \div 256) % 16])
        + (16 * Xor4[(x \div 16) % 16][(y \div 16) % 16]) + Xor4[x % 16][y % 16]

band(a, b) == <<and16(a[1], b[1]), and16(a[2], b[2])>>

bxor(a, b) == <<xor16(a[1], b[1]), xor16(a[2], b[2])>>

bnot(a) == <<Half - 1 - a[1], Half - 1 - a[2]>>

\* a + b mod 2^32
add(a, b) ==
    LET low == a[2] + b[2] IN
    <<(a[1] + b[1] + (low \div Half)) % Half, low % Half>>

\* a rotated right by n bits, 0 <= n < 32.
rotr(a, n) ==
    LET w == IF n >= 16 THEN <<a[2], a[1]>> ELSE a
        m == n % 16
        p == 2 ^ m
        q == 2 ^ (16 - m) IN
    <<(w[1] \div p) + (((w[2] % p) * q) % Half), (w[2] \div p) + (((w[1] % p) * q) % Half)>>

\* a shifted right by n bits, 0 <= n < 16.
shr(a, n) ==
    LET p == 2 ^ n
        q == 2 ^ (16 - n) IN
    <<a[1] \div p, (a[2] \div p) + (((a[1] % p) * q) % Half)>>

\* The values of the bytes b.
byte_values(b) == [i \in 1..Len(b) |-> ord(CharAt(b, i))]

\* The message padded: its bytes, the byte 0x80, zero bytes up to 56 mod 64
\* and the number of its bits in 8 bytes.
sha256_pad(b) ==
    LET n == Len(b)
        zeros == (119 - (n % 64)) % 64
        bits == 8 * n IN
    byte_values(b) \o <<128>> \o [i \in 1..zeros |-> 0]
        \o <<0, 0, 0, 0, bits \div 16777216, (bits \div 65536) % 256,
             (bits \div 256) % 256, bits % 256>>

\* The 16 words of block number k (from 0) of the padded message m.
sha256_block(m, k) ==
    [t \in 1..16 |->
        LET at == 64 * k + 4 * (t - 1) IN
        <<m[at + 1] * 256 + m[at + 2], m[at + 3] * 256 + m[at + 4]>>]

\* The message schedule: the 16 words w grown to 64.
RECURSIVE sha256_schedule(_)
sha256_schedule(w) ==
    IF Len(w) = 64 THEN w
    ELSE LET sigma0(x) == bxor(bxor(rotr(x, 7), rotr(x, 18)), shr(x, 3))
             sigma1(x) == bxor(bxor(rotr(x, 17), rotr(x, 19)), shr(x, 10))
             t == Len(w) + 1
             next == add(add(sigma1(w[t - 2]), w[t - 7]), add(sigma0(w[t - 15]), w[t - 16])) IN
         sha256_schedule(Append(w, next))

\* One round on the working variables v = <<a, b, c, d, e, f, g, h>> with the
\* word wt of the schedule and the constant kt.
sha256_round(v, wt, kt) ==
    LET Ch(x, y, z) == bxor(band(x, y), band(bnot(x), z))
        Maj(x, y, z) == bxor(bxor(band(x, y), band(x, z)), band(y, z))
        Sigma0(x) == bxor(bxor(rotr(x, 2), rotr(x, 13)), rotr(x, 22))
        Sigma1(x) == bxor(bxor(rotr(x, 6), rotr(x, 11)), rotr(x, 25))
        t1 == add(add(add(v[8], Sigma1(v[5])), add(Ch(v[5], v[6], v[7]), kt)), wt)
        t2 == add(Sigma0(v[1]), Maj(v[1], v[2], v[3])) IN
    <<add(t1, t2), v[1], v[2], v[3], add(v[4], t1), v[5], v[6], v[7]>>

\* The working variables round after round on the schedule w: vs holds those
\* before round 1 and after each round done.
RECURSIVE sha256_rounds(_, _)
sha256_rounds(vs, w) ==
    IF Len(vs) = 65 THEN vs
    ELSE sha256_rounds(Append(vs, sha256_round(vs[Len(vs)], w[Len(vs)], SHA256_K[Len(vs)])), w)

\* The hash after the blocks k.. of the padded message m, h before them.
RECURSIVE sha256_blocks(_, _, _)
sha256_blocks(h, m, k) ==
    IF 64 * k >= Len(m) THEN h
    ELSE LET v == sha256_rounds(<<h>>, sha256_schedule(sha256_block(m, k)))[65] IN
         sha256_blocks([i \in 1..8 |-> add(h[i], v[i])], m, k + 1)

HexDigits == "0123456789abcdef"

hex16(x) ==
    CharAt(HexDigits, (x \div 4096) + 1) \o CharAt(HexDigits, ((x \div 256) % 16) + 1)
        \o CharAt(HexDigits, ((x \div 16) % 16) + 1) \o CharAt(HexDigits, (x % 16) + 1)

RECURSIVE hex_words(_)
hex_words(h) ==
    IF Len(h) = 0 THEN "" ELSE hex16(h[1][1]) \o hex16(h[1][2]) \o hex_words(Tail(h))

\* hashlib.sha256(b).hexdigest()
sha256_hexdigest(b) == hex_words(sha256_blocks(SHA256_H0, sha256_pad(b), 0))

\* The passwords of the runs.
ClientPasswords == {"pw", "xx"}

\* The digests of the passwords of the runs, computed once.
Digests == [password \in ClientPasswords |-> sha256_hexdigest(encode(password))]

\* hashlib.sha256(password.encode()).hexdigest()
hexdigest(password) ==
    IF password \in DOMAIN Digests THEN Digests[password]
    ELSE sha256_hexdigest(encode(password))

\* The empty dict of users.
NoUsers == [u \in {} |-> ""]

\* users[username] = digest
users_set(users, u, digest) ==
    [x \in DOMAIN users \cup {u} |-> IF x = u THEN digest ELSE users[x]]

\* UserManager.load_users: the dict of the file; a missing file is created
\* holding {} and {} is returned.
load_users(file) ==
    IF file.exists
    THEN [users |-> file.users, file |-> file]
    ELSE [users |-> NoUsers, file |-> UsersFile(NoUsers)]

\* save_user that never refuses: the entry of an existing username is
\* replaced.
save_user_overwrite(file, u, password) ==
    LET l == load_users(file) IN
    [ret |-> TRUE, file |-> UsersFile(users_set(l.users, u, hexdigest(password)))]

\* UserManager.save_user: what it returns and the file it leaves.
save_user(file, u, password) ==
    LET l == load_users(file) IN
    IF u \in DOMAIN l.users
    THEN [ret |-> FALSE, file |-> l.file]
    ELSE [ret |-> TRUE, file |-> UsersFile(users_set(l.users, u, hexdigest(password)))]

\* UserManager.authenticate: what it returns and the file it leaves.
authenticate(file, u, password) ==
    LET l == load_users(file) IN
    [ret |-> u \in DOMAIN l.users /\ l.users[u] = hexdigest(password), file |-> l.file]

\* self.client.send(...): TRUE when it returns, FALSE when it raises.  It
\* raises on a socket that never connected or that the client has closed;
\* once the server has closed or reset the connection it raises or not, as
\* the transport has learnt of it or not.
ClientSendResults(cl) ==
    IF ~cl.connected \/ cl.closed THEN {FALSE}
    ELSE IF cl.remote # "open" THEN {TRUE, FALSE}
    ELSE {TRUE}

\* start_client returns after chat: to the register that called it, whose
\* caller start_client prompts again, or to the end of the program.
Return(cl) ==
    IF cl.depth > 0
    THEN [cl EXCEPT !.pc = "start", !.depth = @ - 1]
    ELSE [cl EXCEPT !.pc = "done"]

\* The main thread has left start_client, returning or on the exception of
\* a send of login, and the process ends: the receive threads, which ran on
\* until now, are daemon threads and end with it.
Exit ==
    /\ chat_client.pc \in {"done", "failed"}
    /\ chat_client.running
    /\ chat_client' =
         [chat_client EXCEPT
            !.running = FALSE,
            !.rx = [i \in DOMAIN @ |-> [@[i] EXCEPT !.pc = "ended"]]]
    /\ UNCHANGED <<server_vars, users_file>>

\* start_client reads 'r': register reads a username and a password, gives
\* them to save_user, prints the outcome and calls start_client.
register(usernames, passwords) ==
    /\ chat_client.pc = "start"
    /\ chat_client.regs < MaxRegs
    /\ \E u \in usernames, p \in passwords :
         LET r == save_user(users_file, u, p) IN
         /\ users_file' = r.file
         /\ chat_client' = [chat_client EXCEPT !.user = u, !.pass = p, !.ok = r.ret,
                                               !.regs = @ + 1, !.depth = @ + 1]
    /\ UNCHANGED server_vars

\* start_client reads 'l' and calls login.
start_client ==
    /\ chat_client.pc = "start"
    /\ chat_client' = [chat_client EXCEPT !.pc = "login"]
    /\ UNCHANGED <<server_vars, users_file>>

\* One round of the loop of login with the credentials u, p and the
\* outcome a of authenticate.
login_round(u, p, a) ==
    /\ chat_client.attempts < MaxAttempts
    /\ users_file' = a.file
    /\ LET cl == [chat_client EXCEPT !.user = u, !.pass = p, !.ok = a.ret,
                                     !.attempts = @ + 1] IN
       IF a.ret
       THEN \E sent \in ClientSendResults(chat_client) :
              IF sent
              THEN chat_client' = [cl EXCEPT !.username = u, !.pc = "chat",
                                             !.sent = Append(@, encode(u))]
              ELSE chat_client' = [cl EXCEPT !.username = u, !.pc = "failed"]
       ELSE chat_client' = cl
    /\ UNCHANGED server_vars

\* login that does not ask authenticate.
login_unchecked(usernames, passwords) ==
    /\ chat_client.pc = "login"
    /\ \E u \in usernames, p \in passwords :
         login_round(u, p, [ret |-> TRUE, file |-> users_file])

\* login: the username is sent when authenticate accepts the credentials
\* read; otherwise they are read again.
login(usernames, passwords) ==
    /\ chat_client.pc = "login"
    /\ \E u \in usernames, p \in passwords :
         login_round(u, p, authenticate(users_file, u, p))

\* chat starts the receive thread.
chat_start ==
    /\ chat_client.pc = "chat"
    /\ chat_client' = [chat_client EXCEPT !.pc = "input", !.typed = <<>>,
                                          !.chat_sent = <<>>,
                                          !.rx = Append(@, [pc |-> "recv", msg |-> ""])]
    /\ UNCHANGED <<server_vars, users_file>>

\* One round of the loop of chat with the line read, quit telling whether
\* the line counts as the quit command.
chat_round(line, quit) ==
    /\ Len(chat_client.typed) < MaxLines
    /\ LET cl == [chat_client EXCEPT !.typed = Append(@, line)] IN
       IF quit
       THEN chat_client' = Return([cl EXCEPT !.closed = TRUE])
       ELSE \E sent \in ClientSendResults(chat_client) :
              IF sent
              THEN chat_client' = [cl EXCEPT !.sent = Append(@, encode(line)),
                                             !.chat_sent = Append(@, line)]
              ELSE chat_client' = Return(cl)
    /\ UNCHANGED <<server_vars, users_file>>

\* chat that compares the line itself with '/quit'.
chat_exact(lines) ==
    /\ chat_client.pc = "input"
    /\ \E line \in lines : chat_round(line, line = "/quit")

\* chat: a line whose lower case is '/quit' closes the socket and ends the
\* loop; any other line is sent, and the loop ends when send raises.
chat(lines) ==
    /\ chat_client.pc = "input"
    /\ \E line \in lines : chat_round(line, lower(line) = "/quit")

\* The server closes its end of the connection, which resets it when bytes
\* of the client are left unread.  The frames it sent before are still in
\* the connection: they are read until a recv finds the end of them.
ServerCloses ==
    /\ chat_client.running
    /\ chat_client.connected
    /\ chat_client.sent /= <<>>
    /\ chat_client.remote = "open"
    /\ \E how \in {"closed", "reset"} :
         chat_client' = [chat_client EXCEPT !.remote = how]
    /\ UNCHANGED <<server_vars, users_file>>

\* What self.client.recv(1024).decode('utf-8') of a receive thread does, the
\* bytes the server sends being those of frames: where the thread is after
\* it, the text it got, and whether the recv came to the end of what the
\* server sent.  A recv returns a frame the server has sent, also after the
\* server has closed or reset the connection or a send of the client has
\* raised, as long as no recv has come to the end; it returns no bytes once
\* the server has closed its end, and then no recv returns a frame again.
\* The thread ends when the line raises: on bytes that do not decode, on a
\* connection that was reset (one recv raises, those after it return no
\* bytes) and on a recv called after the client closed the socket, while a
\* recv that was waiting when the client closed it goes on waiting.
RecvResults(cl, frames) ==
    LET got(f) == IF decode(f).ok
                  THEN [pc |-> "got", msg |-> decode(f).text, drained |-> f = ""]
                  ELSE [pc |-> "ended", msg |-> "", drained |-> FALSE] IN
    (IF cl.drained THEN {} ELSE {got(f) : f \in frames})
    \cup (IF cl.remote = "open" THEN {} ELSE {got("")})
    \cup (IF cl.remote = "reset"
          THEN {[pc |-> "ended", msg |-> "", drained |-> TRUE]} ELSE {})
    \cup (IF cl.closed
          THEN {[pc |-> "ended", msg |-> "", drained |-> FALSE]} ELSE {})

\* receive_messages, the read: the thread ends when recv or decode raises.
receive_messages(i, frames) ==
    /\ i \in DOMAIN chat_client.rx
    /\ chat_client.rx[i].pc = "recv"
    /\ \E r \in RecvResults(chat_client, frames) :
         chat_client' = [chat_client EXCEPT !.rx[i] = [pc |-> r.pc, msg |-> r.msg],
                                            !.drained = @ \/ r.drained]
    /\ UNCHANGED <<server_vars, users_file>>

\* receive_messages, after the read: a non-empty text is printed, and the
\* loop goes on to the next read.
receive_print(i) ==
    /\ i \in DOMAIN chat_client.rx
    /\ chat_client.rx[i].pc = "got"
    /\ chat_client' = [chat_client EXCEPT !.rx[i].pc = "recv"]
    /\ UNCHANGED <<server_vars, users_file>>

\* ----------------------------------------------------------- specification

\* First frames and payloads of the clients of a run from construction:
\* plain chat and private messages.  The commands /help, /list and /stats are
\* left to the runs among sessions that have joined.
Usernames == {"al", "bo"}

Payloads == {"hi", "/private al yo"}

Uptimes == {125}

\* Any step of the worker of connection c but those of the branches /help,
\* /list and /stats.
handle_client(c, usernames, payloads) ==
    \/ RecvUsername(c, usernames \cup {""})
    \/ RecvUsernameReset(c)
    \/ Register(c)
    \/ BroadcastSnapshot(c)
    \/ BroadcastStep(c)
    \/ BroadcastReturn(c)
    \/ Recv(c, payloads)
    \/ RecvEOF(c)
    \/ RecvReset(c)
    \/ PrivateParse(c)
    \/ Lookup(c)
    \/ NotFoundSend(c)
    \/ PrivateSend(c)
    \/ PrivateEcho(c)
    \/ CountLoad(c)
    \/ CountStore(c)
    \/ Close(c)
    \/ Cleanup(c)

Next ==
    \E c \in Conns :
        \/ Accept(c)
        \/ ClientLeaves(c)
        \/ handle_client(c, Usernames, Payloads)

Spec == Init /\ [][Next]_vars

\* A run of plain chat among sessions that have all joined, one after the
\* other, before any of them sends: every session is registered under its own
\* name and blocked in the recv of the loop, and has been sent the join
\* notices of the sessions that joined after it.  A session sends one plain
\* text; the client of the first session stays, those of the others may
\* leave at any moment.
NameOf(c) == <<"al", "bo", "cy", "di", "ed">>[c]

ChatPayloads == {"hi"}

\* The sessions whose clients may leave.
Leavers == Sessions \ {1}

InitJoined ==
    /\ clients = [c \in Sessions |-> [conn |-> c, user |-> NameOf(c), live |-> TRUE]]
    /\ message_count = 0
    /\ pc = [c \in Sessions |-> "recv"]
    /\ username = [c \in Sessions |-> NameOf(c)]
    /\ msg = [c \in Sessions |-> ""]
    /\ nrecv = [c \in Sessions |-> 0]
    /\ nbytes = [c \in Sessions |-> Len(encode(NameOf(c)))]
    /\ closed = [c \in Sessions |-> FALSE]
    /\ peer = [c \in Sessions |-> "up"]
    /\ inbox = [c \in Sessions |-> [j \in 1..(NJoined - c) |-> JoinNotice(NameOf(c + j))]]
    /\ bc = [c \in Sessions |-> NoBroadcast]
    /\ it = [c \in Sessions |-> NoIter]
    /\ target_conn = [c \in Sessions |-> 0]
    /\ loaded = [c \in Sessions |-> 0]
    /\ reply = [c \in Sessions |-> ""]
    /\ notices = [c \in Sessions |-> [join |-> 1, leave |-> 0, uptime |-> 0]]
    /\ chat_client = NoClient
    /\ users_file = NoUsersFile

NextJoined ==
    \E c \in Sessions :
        \/ Recv(c, ChatPayloads)
        \/ RecvEOF(c)
        \/ RecvReset(c)
        \/ c \in Leavers /\ ClientLeaves(c)
        \/ BroadcastSnapshot(c)
        \/ BroadcastStep(c)
        \/ BroadcastReturn(c)
        \/ CountLoad(c)
        \/ CountStore(c)
        \/ Close(c)
        \/ Cleanup(c)

SpecJoined == InitJoined /\ [][NextJoined]_vars

\* A run of commands among sessions that have all joined before any of them
\* sends, in the order of their connections or in the reverse order: every
\* session is registered under its own name and blocked in the recv of the
\* loop, and has been sent the join notices of the sessions that joined after
\* it.  A session sends one payload, closes its connection or resets it.
\* The last payload of the set is a byte that does not decode.
RouterPayloads ==
    {"hi", "/invalidcommand", "/help", "/list", "/stats",
     "/private al yo", "/private cy yo", "/private al", "/private", "Ã"}

JoinOrders == {[i \in Conns |-> i], [i \in Conns |-> NConn + 1 - i]}

InitRouter ==
    \E order \in JoinOrders :
        /\ clients = [i \in Conns |->
                        [conn |-> order[i], user |-> NameOf(order[i]), live |-> TRUE]]
        /\ message_count = 0
        /\ pc = [c \in Conns |-> "recv"]
        /\ username = [c \in Conns |-> NameOf(c)]
        /\ msg = [c \in Conns |-> ""]
        /\ nrecv = [c \in Conns |-> 0]
        /\ nbytes = [c \in Conns |-> Len(encode(NameOf(c)))]
        /\ closed = [c \in Conns |-> FALSE]
        /\ peer = [c \in Conns |-> "up"]
        /\ inbox = [c \in Conns |->
                      LET p == CHOOSE i \in Conns : order[i] = c IN
                      [j \in 1..(NConn - p) |-> JoinNotice(NameOf(order[p + j]))]]
        /\ bc = [c \in Conns |-> NoBroadcast]
        /\ it = [c \in Conns |-> NoIter]
        /\ target_conn = [c \in Conns |-> 0]
        /\ loaded = [c \in Conns |-> 0]
        /\ reply = [c \in Conns |-> ""]
        /\ notices = [c \in Conns |-> [join |-> 1, leave |-> 0, uptime |-> 0]]
        /\ chat_client = NoClient
        /\ users_file = NoUsersFile

NextRouter ==
    \E c \in Conns :
        \/ Recv(c, RouterPayloads)
        \/ RecvEOF(c)
        \/ RecvReset(c)
        \/ ClientLeaves(c)
        \/ BroadcastSnapshot(c)
        \/ BroadcastStep(c)
        \/ BroadcastReturn(c)
        \/ Help(c)
        \/ List(c)
        \/ ListSend(c)
        \/ PrivateParse(c)
        \/ Lookup(c)
        \/ NotFoundSend(c)
        \/ PrivateSend(c)
        \/ PrivateEcho(c)
        \/ send_stats(c, Uptimes)
        \/ StatsCount(c)
        \/ StatsSend(c)
        \/ CountLoad(c)
        \/ CountStore(c)
        \/ Close(c)
        \/ Cleanup(c)

SpecRouter == InitRouter /\ [][NextRouter]_vars

\* A run among sessions that have all joined in which the payloads are the
\* command strings with something after them, and texts close to them.
PrefixPayloads ==
    {"/helpme", "/listen up", "/privateer al yo", "/privately", "/stats?",
     "/help", "/hel", " /help", "/Help"}

NextPrefix ==
    \E c \in Conns :
        \/ Recv(c, PrefixPayloads)
        \/ RecvEOF(c)
        \/ RecvReset(c)
        \/ ClientLeaves(c)
        \/ BroadcastSnapshot(c)
        \/ BroadcastStep(c)
        \/ BroadcastReturn(c)
        \/ Help(c)
        \/ List(c)
        \/ ListSend(c)
        \/ PrivateParse(c)
        \/ Lookup(c)
        \/ NotFoundSend(c)
        \/ PrivateSend(c)
        \/ PrivateEcho(c)
        \/ send_stats(c, Uptimes)
        \/ StatsCount(c)
        \/ StatsSend(c)
        \/ CountLoad(c)
        \/ CountStore(c)
        \/ Close(c)
        \/ Cleanup(c)

SpecPrefix == InitRouter /\ [][NextPrefix]_vars

\* A run of /stats commands among sessions that have all joined, at uptimes
\* from the first second to ten days.
StatsUptimes ==
    {h * 3600 + m * 60 + s :
        h \in {0, 1, 9, 10, 23, 24, 25, 47, 48, 100, 240}, m \in {0, 2, 59}, s \in {0, 5, 59}}

NextStats ==
    \E c \in Conns :
        \/ Recv(c, {"/stats"})
        \/ send_stats(c, StatsUptimes)
        \/ StatsCount(c)
        \/ StatsSend(c)

SpecStats == InitRouter /\ [][NextStats]_vars

\* A run of clients that send their first frame and nothing after it: they
\* close or reset the connection.  The first frames are command lines, with
\* or without white space around them, a plain name, the bytes of a name
\* after U+000B and U+0085 and before U+2003, and a byte that does not decode.
HandshakeFrames ==
    {"/help", "/list", "/private al yo", "/stats\n", " /help", "al", "Âalâ", "Ã"}

NextHandshake ==
    \E c \in Conns :
        \/ Accept(c)
        \/ RecvUsername(c, HandshakeFrames \cup {""})
        \/ RecvUsernameReset(c)
        \/ Register(c)
        \/ BroadcastSnapshot(c)
        \/ BroadcastStep(c)
        \/ BroadcastReturn(c)
        \/ RecvEOF(c)
        \/ RecvReset(c)
        \/ ClientLeaves(c)
        \/ Close(c)
        \/ Cleanup(c)

SpecHandshake == Init /\ [][NextHandshake]_vars

\* A run of plain chat among sessions that have all joined, in which the k-th
\* payload a client sends is the text "m" followed by k.
OrderedPayload(k) == "m" \o str(k)

NextOrdered ==
    \E c \in Conns :
        \/ RecvAtMost(c, {OrderedPayload(nrecv[c] + 1)}, MaxOrdered)
        \/ RecvEOF(c)
        \/ RecvReset(c)
        \/ ClientLeaves(c)
        \/ BroadcastSnapshot(c)
        \/ BroadcastStep(c)
        \/ BroadcastReturn(c)
        \/ CountLoad(c)
        \/ CountStore(c)
        \/ Close(c)
        \/ Cleanup(c)

SpecOrdered == InitRouter /\ [][NextOrdered]_vars

\* A run in which what a read returns is left to the transport.  The client
\* of connection c passes its name to one send (ChatClient.login) and then
\* "hi" to another (ChatClient.chat); the connection carries the bytes as one
\* stream, and conn.recv(1024) returns any non-empty prefix of the bytes the
\* worker has not read yet.
ClientSends(c) == <<encode(NameOf(c)), encode("hi")>>

\* The bytes of the stream of connection c the worker has not read.
Unread(c) ==
    LET stream == concat_range(ClientSends(c), 1, Len(ClientSends(c)), "") IN
    SubSeq(stream, nbytes[c] + 1, Len(stream))

\* What one recv can return when the unread bytes are s.
Reads(s) == {SubSeq(s, 1, n) : n \in 1..Len(s)}

\* Reads of the loop of one worker: no more than the bytes after the first
\* byte of the stream.
MaxReads == 3

\* The connections whose clients may leave.
StreamLeavers == Conns \ {1}

NextStream ==
    \E c \in Conns :
        \/ Accept(c)
        \/ RecvUsername(c, Reads(Unread(c)))
        \/ Register(c)
        \/ RecvAtMost(c, Reads(Unread(c)), MaxReads)
        \/ Unread(c) = "" /\ RecvEOF(c)
        \/ Unread(c) = "" /\ RecvReset(c)
        \/ c \in StreamLeavers /\ ClientLeaves(c)
        \/ BroadcastSnapshot(c)
        \/ BroadcastStep(c)
        \/ BroadcastReturn(c)
        \/ CountLoad(c)
        \/ CountStore(c)
        \/ Close(c)
        \/ Cleanup(c)

SpecStream == Init /\ [][NextStream]_vars

\* The run of one client program against a credentials file: the socket
\* connected or not, the file missing or holding the user al.
ClientUsernames == {"al", "bo"}

ClientLines == {"hi", "yo", "/quit", "/Quit"}

\* What the server sends: a chat frame, and the first of the two bytes of
\* U+00E9, which alone does not decode.
ClientFrames == {"bo: hi", "Ã"}

InitClient ==
    /\ clients = <<>>
    /\ message_count = 0
    /\ pc = [c \in Conns |-> "idle"]
    /\ username = [c \in Conns |-> ""]
    /\ msg = [c \in Conns |-> ""]
    /\ nrecv = [c \in Conns |-> 0]
    /\ nbytes = [c \in Conns |-> 0]
    /\ closed = [c \in Conns |-> FALSE]
    /\ peer = [c \in Conns |-> "up"]
    /\ inbox = [c \in Conns |-> <<>>]
    /\ bc = [c \in Conns |-> NoBroadcast]
    /\ it = [c \in Conns |-> NoIter]
    /\ target_conn = [c \in Conns |-> 0]
    /\ loaded = [c \in Conns |-> 0]
    /\ reply = [c \in Conns |-> ""]
    /\ notices = [c \in Conns |-> NoNotices]
    /\ chat_client \in {Client(connected) : connected \in BOOLEAN}
    /\ users_file \in {NoUsersFile, UsersFile(users_set(NoUsers, "al", hexdigest("pw")))}

NextClient ==
    \/ register(ClientUsernames, ClientPasswords)
    \/ start_client
    \/ login(ClientUsernames, ClientPasswords)
    \/ chat_start
    \/ chat(ClientLines)
    \/ Exit
    \/ ServerCloses
    \/ \E i \in 1..(MaxRegs + 1) :
         \/ receive_messages(i, ClientFrames)
         \/ receive_print(i)

SpecClient == InitClient /\ [][NextClient]_vars

\* ------------------------------------------------------------------ claims

\* How many times x occurs in seq.
Count(x, seq) == Cardinality({i \in 1..Len(seq) : seq[i] = x})

\* The connections worker c's running broadcast has called send on so far.
Attempts(c) == bc[c].sent \o bc[c].failed

\* Worker c's broadcast has gone through its whole snapshot.
BroadcastOver(c) == pc[c] = "bc_loop" /\ bc[c].idx > Len(bc[c].snap)

\* C1: a broadcast calls send exactly once on every connection that was in
\* the registry when it took its snapshot, the sender excepted, and on no
\* other connection: never more than that while it runs, exactly that once it
\* has gone through the snapshot.
C1_BroadcastRecipients ==
    \A c \in DOMAIN pc :
        pc[c] = "bc_loop" =>
            \A x \in DOMAIN pc :
                LET due == IF x \in bc[c].reg /\ x # bc[c].sender THEN 1 ELSE 0 IN
                /\ Count(x, Attempts(c)) <= due
                /\ BroadcastOver(c) => Count(x, Attempts(c)) = due

\* A chat broadcast whose sender is in its snapshot, over, with two recipients.
C1_Witness ==
    \E c \in DOMAIN pc :
        /\ BroadcastOver(c)
        /\ bc[c].sender \in bc[c].reg
        /\ Len(Attempts(c)) >= 2

\* In this step worker c's broadcast calls send on connection x.
BroadcastSends(c, x) ==
    /\ pc[c] = "bc_loop"
    /\ bc[c].idx <= Len(bc[c].snap)
    /\ bc[c].snap[bc[c].idx] = x
    /\ x # bc[c].sender
    /\ bc'[c].idx = bc[c].idx + 1

\* C2: a send that raises inside broadcast is caught: the frame is dropped for
\* that recipient only and the worker stays in the loop until the call returns
\* to its caller; a send that succeeds puts the frame once on the recipient's
\* connection; and when a broadcast in which a send failed is over, every
\* recipient of the snapshot has had its one send, failed or not.
C2_FailureIsolated ==
    /\ [](\A c \in DOMAIN pc :
            (BroadcastOver(c) /\ Len(bc[c].failed) > 0) =>
                \A x \in bc[c].reg \ {bc[c].sender} :
                    Count(x, bc[c].sent) = 1 - Count(x, bc[c].failed))
    /\ [][\A c \in DOMAIN pc :
            /\ pc[c] = "bc_loop" => pc'[c] \in {"bc_loop", bc[c].ret}
            /\ \A x \in DOMAIN pc :
                  BroadcastSends(c, x) =>
                      IF SendOK(x)
                      THEN /\ inbox'[x] = Append(inbox[x], bc[c].msg)
                           /\ Count(x, bc'[c].sent) = Count(x, bc[c].sent) + 1
                           /\ bc'[c].failed = bc[c].failed
                      ELSE /\ inbox'[x] = inbox[x]
                           /\ Count(x, bc'[c].failed) = Count(x, bc[c].failed) + 1
                           /\ bc'[c].sent = bc[c].sent]_vars

\* A broadcast that is over in which the send to an earlier recipient of the
\* snapshot failed and the send to a later one succeeded.
C2_Witness ==
    \E c \in DOMAIN pc :
        /\ BroadcastOver(c)
        /\ \E i, j \in 1..Len(bc[c].snap) :
              /\ i < j
              /\ Count(bc[c].snap[i], bc[c].failed) = 1
              /\ Count(bc[c].snap[j], bc[c].sent) = 1

\* Every session has had its one plain-text message processed and none has
\* left: all workers are back in recv and all clients are there.
AllProcessed ==
    \A c \in DOMAIN pc :
        /\ pc[c] = "recv" /\ nrecv[c] = 1 /\ Dispatch(msg[c]) = "chat"
        /\ ~closed[c] /\ peer[c] = "up"

\* The chat frames among the frames sent on connection c.
ChatFrames(c) ==
    {i \in 1..Len(inbox[c]) :
        \E d \in DOMAIN pc : inbox[c][i] = ChatFrame(username[d], msg[d])}

\* C3: N identified sessions each send one plain-text message concurrently;
\* once every worker has processed its message, message_count is N and every
\* session has been sent N-1 chat frames.
C3_AllCounted ==
    AllProcessed =>
        /\ message_count = Cardinality(DOMAIN pc)
        /\ \A c \in DOMAIN pc : Cardinality(ChatFrames(c)) = Cardinality(DOMAIN pc) - 1

\* Worker c is in the finally block of handle_client.
InFinally(c) ==
    \/ pc[c] \in {"close", "cleanup"}
    \/ pc[c] \in {"bc_snapshot", "bc_loop"} /\ bc[c].ret = "done"

\* The step is one of worker c.
StepOf(c) == pc'[c] # pc[c] \/ bc'[c] # bc[c]

\* The entries of the registry table that are not connection c's.
Others(d, c) == SelectSeq(d, LAMBDA e : e.conn # c)

\* C4: a worker that has ended, whatever ended it, has closed its connection
\* and its connection is not in the registry; and no step of its finally
\* block touches the registry entry of another session.
C4_WorkerEndsClean ==
    /\ [](\A c \in DOMAIN pc :
            pc[c] = "done" => closed[c] /\ ~dict_contains(clients, c))
    /\ [][\A c \in DOMAIN pc :
            (InFinally(c) /\ StepOf(c)) => Others(clients', c) = Others(clients, c)]_vars

\* A worker that had registered its session has ended on an exception that is
\* neither an empty read nor a reset (its client is still up), and another
\* session is in the registry.
C4_Witness ==
    \E c, d \in DOMAIN pc :
        /\ c # d
        /\ pc[c] = "done" /\ notices[c].join = 1 /\ peer[c] = "up"
        /\ dict_contains(clients, d)

\* C5: the leave notice of a session is broadcast at most once, only for a
\* session that was registered, as "[SERVER] U has left the chat." with U its
\* registered name, by its own worker once it has closed and removed the
\* session; a worker that has ended has broadcast it exactly once if its
\* session was registered and not at all if it never was.
C5_LeaveNoticeOnce ==
    \A c \in DOMAIN pc :
        /\ notices[c].leave <= notices[c].join
        /\ notices[c].join <= 1
        /\ pc[c] = "done" => notices[c].leave = notices[c].join
        /\ notices[c].leave = 1 =>
              /\ closed[c] /\ ~dict_contains(clients, c)
              /\ \/ pc[c] = "done"
                 \/ /\ pc[c] \in {"bc_snapshot", "bc_loop"}
                    /\ bc[c].ret = "done"
                    /\ bc[c].sender = c
                    /\ bc[c].msg = LeaveNotice(username[c])

\* Two workers have ended: one of a registered session, which broadcast its
\* leave notice, one of a connection that was reset before it sent a username.
C5_Witness ==
    \E c, d \in DOMAIN pc :
        /\ pc[c] = "done" /\ notices[c].join = 1 /\ notices[c].leave = 1
        /\ pc[d] = "done" /\ notices[d].join = 0 /\ notices[d].leave = 0

\* Worker c's join broadcast has gone through its whole snapshot.
JoinOver(c) == BroadcastOver(c) /\ bc[c].ret = "recv"

\* C6 as claimed: the join notice is sent exactly once to every other session
\* that was in the registry at the moment the session was registered, and not
\* to the joining session.
C6_JoinNoticeAtRegistration ==
    \A c \in DOMAIN pc :
        JoinOver(c) =>
            /\ Count(c, Attempts(c)) = 0
            /\ \A x \in bc[c].at_join \ {c} : Count(x, Attempts(c)) = 1

\* C6 as amended: a session is registered at most once and then broadcasts
\* "[SERVER] U has joined the chat." with U its registered name; send is
\* called with it exactly once on every other connection that is in the
\* registry when that broadcast takes its snapshot, and on no other connection,
\* the joining one included; a connection whose send succeeded holds the frame.
C6_JoinNoticeAtSnapshot ==
    \A c \in DOMAIN pc :
        /\ notices[c].join <= 1
        /\ (pc[c] \in {"bc_snapshot", "bc_loop"} /\ bc[c].ret = "recv") =>
              /\ notices[c].join = 1
              /\ dict_contains(clients, c)
              /\ bc[c].msg = JoinNotice(dict_get(clients, c))
              /\ Count(c, Attempts(c)) = 0
        /\ JoinOver(c) =>
              \A x \in DOMAIN pc :
                  /\ Count(x, Attempts(c)) = (IF x \in bc[c].reg \ {c} THEN 1 ELSE 0)
                  /\ Count(x, bc[c].sent) = 1 => Count(bc[c].msg, inbox[x]) >= 1

\* A join broadcast that is over and was sent to another session.
C6_Witness ==
    \E c \in DOMAIN pc : JoinOver(c) /\ Len(bc[c].sent) >= 1

\* In this step worker c, serving a message of its own session, calls send on
\* another session's connection (a broadcast recipient, a /private target)
\* and the send raises.
ForeignSendFails(c) ==
    \/ /\ pc[c] = "bc_loop"
       /\ bc[c].ret # "done"
       /\ bc[c].idx <= Len(bc[c].snap)
       /\ bc[c].snap[bc[c].idx] # bc[c].sender
       /\ ~SendOK(bc[c].snap[bc[c].idx])
       /\ bc'[c].idx = bc[c].idx + 1
    \/ /\ pc[c] = "private_send"
       /\ target_conn[c] # c
       /\ ~SendOK(target_conn[c])
       /\ pc'[c] # pc[c]

\* C7: a send that fails on another session's connection does not close the
\* session that issued the message: its worker does not enter the finally
\* block, its connection stays open and in the registry.
C7_ForeignFailureContained ==
    [][\A c \in DOMAIN pc :
        ForeignSendFails(c) =>
            /\ pc'[c] \notin {"close", "cleanup", "done"}
            /\ ~closed'[c]
            /\ dict_contains(clients', c)]_vars

\* In this step worker c calls send on connection x.
SendsTo(c, x) ==
    \/ BroadcastSends(c, x)
    \/ /\ pc[c] = "private_send"
       /\ target_conn[c] = x
       /\ pc'[c] # pc[c]

\* C8: once a connection has been closed by its worker, no worker calls send
\* on it.
C8_NoSendAfterClose ==
    [][\A c, x \in DOMAIN pc : closed[x] => ~SendsTo(c, x)]_vars

\* C9: the /private lookup never fails: whatever other workers register or
\* remove meanwhile, the worker in the lookup does not end up in the finally
\* block.
C9_LookupNeverFails ==
    [][\A c \in DOMAIN pc : pc[c] = "lookup" => pc'[c] # "close"]_vars

\* C10: no two live entries of the registry have the same username.
C10_UniqueUsernames ==
    \A i, j \in 1..Len(clients) :
        (i # j /\ clients[i].live /\ clients[j].live) => clients[i].user # clients[j].user

\* The registry holds a session whose username is u.
HasUser(d, u) == \E i \in 1..Len(d) : d[i].live /\ d[i].user = u

\* The target and the text of a /private payload of three parts.
PrivateTarget(m) == split(m, 2)[2]

PrivateText(m) == split(m, 2)[3]

\* The step is one of worker c serving a /private payload of three parts.
PrivateStep(c) ==
    /\ pc[c] \in {"lookup", "private_send", "private_echo"}
    /\ pc'[c] # pc[c] \/ it'[c] # it[c]

\* In this step no connection other than those of S is sent a frame.
OnlyTo(S) == \A x \in DOMAIN pc : x \notin S => inbox'[x] = inbox[x]

\* In this step worker c sends frame on its own connection, and nothing on
\* any other: the frame is put on the connection and the worker is back in
\* recv; or the client has gone and the send raises, the transport error that
\* ends the session.
Replies(c, frame) ==
    /\ OnlyTo({c})
    /\ IF SendOK(c)
       THEN inbox'[c] = Append(inbox[c], frame) /\ pc'[c] = "recv"
       ELSE inbox'[c] = inbox[c] /\ pc'[c] = "close"

\* C11: while a session named <user> is in the registry, a worker serving
\* '/private <user> <text>' of an identified sender whose client is there
\* does not fail and does not answer User not found; its send to the target
\* puts "[PRIVATE] <sender>: <text>" (and the newline that ends the frame) on
\* the target's connection, after which the copy "[PRIVATE] To <user>: <text>"
\* is put on the sender's connection; no other connection is sent a frame.
C11_PrivateDelivered ==
    [][\A c \in DOMAIN pc :
        (PrivateStep(c) /\ HasUser(clients, PrivateTarget(msg[c])) /\ SendOK(c)) =>
            /\ pc'[c] # "close"
            /\ pc[c] = "lookup" =>
                  /\ inbox' = inbox
                  /\ pc'[c] \in {"lookup", "private_send"}
            /\ pc[c] = "private_send" =>
                  /\ inbox'[target_conn[c]] =
                        Append(inbox[target_conn[c]],
                               PrivateFrame(username[c], PrivateText(msg[c])))
                  /\ OnlyTo({target_conn[c]})
                  /\ pc'[c] = "private_echo"
            /\ pc[c] = "private_echo" =>
                  /\ inbox'[c] =
                        Append(inbox[c],
                               PrivateEchoFrame(PrivateTarget(msg[c]), PrivateText(msg[c])))
                  /\ OnlyTo({c})
                  /\ pc'[c] = "recv"]_vars

\* C12: while no session in the registry is named <user>, a worker serving
\* '/private <user> <text>' does not fail: its lookup goes through the
\* registry and ends in the else branch, where the one reply
\* "[SERVER] User not found." is sent on the sender's connection and nothing
\* else happens: no other connection is sent a frame, the registry and
\* message_count are as they were, and the worker is back in recv with its
\* connection open.
C12_NotFoundOnly ==
    [][\A c \in DOMAIN pc :
        /\ (PrivateStep(c) /\ pc[c] = "lookup" /\ ~HasUser(clients, PrivateTarget(msg[c]))) =>
              /\ pc'[c] \in {"lookup", "not_found"}
              /\ inbox' = inbox
              /\ clients' = clients
              /\ message_count' = message_count
              /\ ~closed'[c]
        /\ (pc[c] = "not_found" /\ pc'[c] # pc[c]) =>
              /\ Replies(c, NotFound)
              /\ clients' = clients
              /\ message_count' = message_count
              /\ ~closed'[c]]_vars

\* The number of spaces in s: split(' ', 2) gives fewer than 3 parts exactly
\* when there are fewer than 2.
Spaces(s) == Cardinality({i \in 1..Len(s) : CharAt(s, i) = " "})

\* C13: a /private payload with fewer than 3 parts is answered with the one
\* reply "[SERVER] Invalid format. ..." on the sender's connection and nothing
\* else: no lookup is started, no other connection is sent a frame, the
\* registry and message_count are as they were, and the worker is back in
\* recv with its connection open (when the client has gone the send of the
\* reply raises, the transport error that ends the session).
C13_InvalidFormatOnly ==
    [][\A c \in DOMAIN pc :
        (pc[c] = "private" /\ pc'[c] # pc[c] /\ Spaces(msg[c]) < 2) =>
            /\ Replies(c, InvalidFormat)
            /\ it' = it
            /\ target_conn' = target_conn
            /\ clients' = clients
            /\ message_count' = message_count
            /\ ~closed'[c]]_vars

\* A worker has answered '/private al', sent while al is in the registry, and
\* is back in recv; al has been sent nothing since it joined.
C13_Witness ==
    \E c, d \in DOMAIN pc :
        /\ c # d
        /\ pc[c] = "recv" /\ nrecv[c] = 1 /\ msg[c] = "/private al"
        /\ Len(inbox[c]) > 0 /\ inbox[c][Len(inbox[c])] = InvalidFormat
        /\ dict_contains(clients, d) /\ dict_get(clients, d) = "al"
        /\ nrecv[d] = 0 /\ \A i \in 1..Len(inbox[d]) : startswith(inbox[d][i], "[SERVER] ")

\* In this step worker c completes message_count += 1 for the plain text it
\* has broadcast.
Counts(c) == pc[c] = "count_store" /\ pc'[c] # pc[c]

\* C14: a step that completes the routing of a plain-text payload increases
\* message_count by exactly 1, every other step leaves it as it is, and it
\* never decreases.
C14_CountsPlainText ==
    [][/\ message_count' >= message_count
       /\ \A c \in DOMAIN pc : Counts(c) => message_count' = message_count + 1
       /\ (\A c \in DOMAIN pc : ~Counts(c)) => message_count' = message_count]_vars

\* m is none of the four commands: it starts with none of their names.
Unrecognized(m) ==
    \A name \in {"/help", "/list", "/private", "/stats"} : ~startswith(m, name)

\* C15: a payload that is none of the four commands, "/invalidcommand"
\* included, is handled as plain text: the worker calls broadcast with
\* "<username>: <payload>", the payload as it was received, and itself as the
\* sender, sends nothing else, and when the broadcast has returned adds
\* exactly 1 to message_count.
C15_UnrecognizedIsPlainText ==
    [][\A c \in DOMAIN pc :
        Unrecognized(msg'[c]) =>
            /\ (pc[c] = "recv" /\ pc'[c] \notin {"recv", "close"}) =>
                  /\ pc'[c] = "bc_snapshot"
                  /\ bc'[c].msg = username[c] \o ": " \o msg'[c]
                  /\ bc'[c].sender = c
                  /\ bc'[c].ret = "count_load"
                  /\ inbox' = inbox
            /\ (pc[c] = "bc_loop" /\ bc[c].ret = "count_load" /\ pc'[c] # pc[c]) =>
                  pc'[c] = "count_load"
            /\ (pc[c] = "count_load" /\ pc'[c] # pc[c]) => pc'[c] = "count_store"
            /\ Counts(c) => message_count' = message_count + 1 /\ pc'[c] = "recv"]_vars

\* The names under which the sessions of the registry joined, each followed
\* by a newline, in the order in which they were registered.
RECURSIVE JoinedLines(_)
JoinedLines(i) ==
    IF i > Len(clients) THEN ""
    ELSE (IF clients[i].live THEN username[clients[i].conn] \o "\n" ELSE "")
         \o JoinedLines(i + 1)

\* C16: the text of the reply to /list is "[SERVER] Connected users:"
\* followed by one line per session that is in the registry when the text is
\* built, the sender's own included, in the order in which the sessions
\* joined; a session that has been removed has no line.  That text is what
\* the worker then sends on the sender's connection.
C16_ListInJoinOrder ==
    [][\A c \in DOMAIN pc :
        /\ (pc[c] = "list" /\ pc'[c] # pc[c]) =>
              /\ reply'[c] \o "\n" = "[SERVER] Connected users:\n" \o JoinedLines(1)
              /\ \E i \in 1..Len(clients) : clients[i].live /\ clients[i].conn = c
              /\ pc'[c] = "list_send"
        /\ (pc[c] = "list_send" /\ pc'[c] # pc[c]) =>
              Replies(c, reply[c] \o "\n")]_vars

\* bo joined before al: al's /list was answered with bo then al; al has left
\* since and bo's /list was answered with bo alone.
C16_Witness ==
    /\ \E i \in 1..Len(inbox[1]) : inbox[1][i] = "[SERVER] Connected users:\nbo\nal\n"
    /\ \E i \in 1..Len(inbox[2]) : inbox[2][i] = "[SERVER] Connected users:\nbo\n"

\* The first three lines of a /stats reply that reports n active users and
\* k messages, up to the uptime.
StatsHead(n, k) ==
    "[SERVER STATS]\nActive users: " \o str(n) \o "\nTotal messages: " \o str(k)
    \o "\nUptime: "

\* The number of sessions in the registry.
ActiveUsers == Cardinality({x \in DOMAIN pc : dict_contains(clients, x)})

\* C17: the text of the reply to /stats reports as active users the number of
\* connections in the registry, and as total messages the value of
\* message_count, each as it is when the worker reads it; the worker then
\* sends that text as one frame on the sender's connection.
C17_StatsReportsCurrent ==
    [][\A c \in DOMAIN pc :
        /\ (pc[c] = "stats" /\ pc'[c] # pc[c]) =>
              reply'[c] = "[SERVER STATS]\nActive users: " \o str(ActiveUsers) \o "\n"
        /\ (pc[c] = "stats_count" /\ pc'[c] # pc[c]) =>
              startswith(reply'[c],
                         reply[c] \o "Total messages: " \o str(message_count) \o "\nUptime: ")
        /\ (pc[c] = "stats_send" /\ pc'[c] # pc[c]) => Replies(c, reply[c])]_vars

\* A /stats reply that reports 1 active user and 1 message: the other session
\* has sent a plain text and left.
C17_Witness ==
    \E c \in DOMAIN pc :
        /\ pc[c] = "recv" /\ msg[c] = "/stats"
        /\ Len(inbox[c]) > 0 /\ startswith(inbox[c][Len(inbox[c])], StatsHead(1, 1))

\* n as two decimal digits
TwoDigits(n) == str(n \div 10) \o str(n % 10)

\* u seconds as H:MM:SS, the hours not bounded
HMS(u) == str(u \div 3600) \o ":" \o TwoDigits((u % 3600) \div 60) \o ":" \o TwoDigits(u % 60)

\* u seconds as H:MM:SS under 24 hours, as "D day(s), H:MM:SS" from 24 hours on
DaysHMS(u) ==
    IF u < 24 * 3600 THEN HMS(u)
    ELSE str(u \div (24 * 3600))
         \o (IF u \div (24 * 3600) = 1 THEN " day, " ELSE " days, ")
         \o HMS(u % (24 * 3600))

\* The uptime field of the text of the /stats reply worker c completes in
\* this step: what follows "Uptime: ".
UptimeField(c) ==
    LET before == reply[c] \o "Total messages: " \o str(message_count) \o "\nUptime: " IN
    IF startswith(reply'[c], before)
    THEN SubSeq(reply'[c], Len(before) + 1, Len(reply'[c]))
    ELSE "?"

\* In this step worker c completes the text of a /stats reply.
StatsBuilt(c) == pc[c] = "stats_count" /\ pc'[c] # pc[c]

\* In this step worker c sends the text it has built as the /stats reply.
StatsSent(c) ==
    pc[c] = "stats_send" /\ pc'[c] # pc[c] => inbox'[c] = Sent(inbox, c, reply[c])[c]

\* C18 as claimed: whatever the uptime, 24 hours and more included, the /stats
\* reply gives it as H:MM:SS with the hours not bounded.
C18_UptimeHMS ==
    [][\A c \in DOMAIN pc :
        /\ StatsBuilt(c) => UptimeField(c) = HMS(notices[c].uptime)
        /\ StatsSent(c)]_vars

\* C18 as amended: the /stats reply gives an uptime under 24 hours as H:MM:SS,
\* minutes and seconds on 2 digits, and an uptime of 24 hours or more as
\* "D day, H:MM:SS" (D = 1) or "D days, H:MM:SS" (D > 1), the hours under 24.
C18_UptimeDaysHMS ==
    [][\A c \in DOMAIN pc :
        /\ StatsBuilt(c) => UptimeField(c) = DaysHMS(notices[c].uptime)
        /\ StatsSent(c)]_vars

\* /stats has been answered at 125 seconds with 0:02:05, and at 25 hours 2
\* minutes 5 seconds with "1 day, 1:02:05".
C18_Witness ==
    \E c, d \in DOMAIN pc :
        /\ notices[c].uptime = 125
        /\ Len(inbox[c]) > 0
        /\ inbox[c][Len(inbox[c])] = StatsHead(ActiveUsers, message_count) \o "0:02:05"
        /\ notices[d].uptime = 90125
        /\ Len(inbox[d]) > 0
        /\ inbox[d][Len(inbox[d])] = StatsHead(ActiveUsers, message_count) \o "1 day, 1:02:05"

\* The command among /help, /list and /stats that payload m is ("": none).
ReplyCommand(m) ==
    IF startswith(m, "/help") THEN "help"
    ELSE IF startswith(m, "/list") THEN "list"
    ELSE IF startswith(m, "/private") THEN ""
    ELSE IF startswith(m, "/stats") THEN "stats"
    ELSE ""

\* How the reply to each of the three commands begins.
ReplyHead(command) ==
    IF command = "help" THEN "[SERVER] Commands:\n"
    ELSE IF command = "list" THEN "[SERVER] Connected users:\n"
    ELSE "[SERVER STATS]\n"

\* Where the worker is while it serves each of the three commands, the send
\* of the reply last.
ReplyLabels(command) ==
    IF command = "help" THEN <<"help">>
    ELSE IF command = "list" THEN <<"list", "list_send">>
    ELSE <<"stats", "stats_count", "stats_send">>

\* Worker c is at step number k of serving the command.
ReplyStep(c, command, k) ==
    /\ k \in 1..Len(ReplyLabels(command))
    /\ pc[c] = ReplyLabels(command)[k]
    /\ pc'[c] # pc[c]

\* C19: a worker that has read /help, /list or /stats sends nothing before
\* its reply, then sends exactly one frame, the reply of that command, on its
\* own connection and is back in recv; in these steps no other connection is
\* sent a frame and the registry is left as it is.
C19_ReplyToSenderOnly ==
    [][\A c \in DOMAIN pc :
        /\ (pc[c] = "recv" /\ pc'[c] \notin {"recv", "close"} /\ ReplyCommand(msg'[c]) # "") =>
              /\ pc'[c] = ReplyCommand(msg'[c])
              /\ inbox' = inbox
              /\ clients' = clients
        /\ \A command \in {"help", "list", "stats"} :
              \A k \in 1..Len(ReplyLabels(command)) :
                  ReplyStep(c, command, k) =>
                      /\ ReplyCommand(msg[c]) = command
                      /\ clients' = clients
                      /\ IF k < Len(ReplyLabels(command))
                         THEN inbox' = inbox /\ pc'[c] = ReplyLabels(command)[k + 1]
                         ELSE \E frame \in {IF command = "help" THEN HelpReply
                                            ELSE IF command = "list" THEN reply[c] \o "\n"
                                            ELSE reply[c]} :
                                 /\ startswith(frame, ReplyHead(command))
                                 /\ Replies(c, frame)]_vars

\* Two sessions in the registry: one has been answered /help, the other /list,
\* and neither has been sent anything else since they joined.
C19_Witness ==
    \E c, d \in DOMAIN pc :
        /\ c # d /\ dict_contains(clients, c) /\ dict_contains(clients, d)
        /\ pc[c] = "recv" /\ msg[c] = "/help"
        /\ pc[d] = "recv" /\ msg[d] = "/list"
        /\ inbox[c][Len(inbox[c])] = HelpReply
        /\ startswith(inbox[d][Len(inbox[d])], ReplyHead("list"))
        /\ Len(inbox[c]) + Len(inbox[d]) = 3

\* Where a worker is while it serves a payload of the loop.
RouterLabels ==
    {"help", "list", "private", "lookup", "private_send", "private_echo", "stats",
     "count_load", "count_store"}

\* C20: when clients send nothing but their first frame, whatever it begins
\* with, no worker is ever in the if/elif chain of the loop, message_count
\* stays 0, a worker's broadcasts are its join and its leave notice, and
\* every frame sent is the join or leave notice of a session; the step that
\* reads the first frame binds it, stripped, as the username and touches
\* neither the registry nor a connection; the step after it writes that name
\* to the registry, sends nothing, takes no payload and starts the broadcast
\* of the join notice.
C20_FirstFrameIsUsername ==
    /\ [](/\ message_count = 0
          /\ \A c \in DOMAIN pc :
                /\ pc[c] \notin RouterLabels
                /\ pc[c] \in {"bc_snapshot", "bc_loop"} =>
                      \/ bc[c].ret = "recv" /\ bc[c].msg = JoinNotice(username[c])
                      \/ bc[c].ret = "done" /\ bc[c].msg = LeaveNotice(username[c])
                /\ \A i \in 1..Len(inbox[c]) :
                      \E d \in DOMAIN pc :
                          inbox[c][i] \in {JoinNotice(username[d]), LeaveNotice(username[d])})
    /\ [][\A c \in DOMAIN pc :
            /\ (pc[c] = "recv_username" /\ pc'[c] = "register") =>
                  /\ username'[c] \in
                        {strip(decode(f).text) : f \in HandshakeFrames} \cup {""}
                  /\ clients' = clients
                  /\ bc' = bc
                  /\ inbox' = inbox
                  /\ msg' = msg
            /\ (pc[c] = "register" /\ pc'[c] # pc[c]) =>
                  /\ pc'[c] = "bc_snapshot"
                  /\ username' = username
                  /\ dict_contains(clients', c) /\ dict_get(clients', c) = username[c]
                  /\ bc'[c].msg = JoinNotice(username[c])
                  /\ bc'[c].ret = "recv"
                  /\ inbox' = inbox
                  /\ msg' = msg]_vars

\* A session whose first frame was "/private al yo", sent while al was in the
\* registry, is registered under that name and waits for its first payload;
\* al has been sent its join notice and nothing else.
C20_Witness ==
    \E c, d \in DOMAIN pc :
        /\ pc[c] = "recv" /\ username[c] = "/private al yo"
        /\ dict_contains(clients, c) /\ dict_get(clients, c) = "/private al yo"
        /\ pc[d] = "recv" /\ username[d] = "al"
        /\ inbox[d] = <<JoinNotice("/private al yo")>>
        /\ inbox[c] = <<>>

\* C21: a worker whose first read returns the empty read of a closed
\* connection goes straight to its finally block: it binds no username, does
\* not put the connection in the registry and calls no broadcast, so that no
\* join notice and, the connection not being registered, no leave notice is
\* sent for it.  A worker that is past its first read and has read no byte
\* is one whose first read returned empty or raised.
C21_EmptyFirstReadCloses ==
    \A c \in DOMAIN pc :
        (pc[c] \notin {"idle", "recv_username"} /\ nbytes[c] = 0) =>
            /\ pc[c] \in {"close", "cleanup", "done"}
            /\ ~dict_contains(clients, c)
            /\ bc[c] = NoBroadcast
            /\ notices[c] = NoNotices

\* The positions in the frames sent on connection x of the chat frame of the
\* k-th plain text of session c.
ChatAt(x, c, k) ==
    {i \in 1..Len(inbox[x]) : inbox[x][i] = ChatFrame(NameOf(c), OrderedPayload(k))}

\* C22: a connection that has been sent the chat frames of two plain texts of
\* one session has been sent each once, that of the earlier text first; and a
\* worker reads the next payload of its session only when it has nothing left
\* to do for the one before: its broadcast has returned and has been counted.
C22_SenderOrderKept ==
    /\ [](\A x, c \in DOMAIN pc : \A j, k \in 1..(MaxOrdered + 1) :
            /\ Cardinality(ChatAt(x, c, k)) <= 1
            /\ j < k => \A a \in ChatAt(x, c, j) : \A b \in ChatAt(x, c, k) : a < b)
    /\ [][\A c \in DOMAIN pc :
            nrecv'[c] # nrecv[c] =>
                /\ pc[c] = "recv" /\ bc[c] = NoBroadcast
                /\ msg'[c] = OrderedPayload(nrecv[c] + 1)]_vars

\* Some connection has been sent the chat frames of both plain texts of
\* another session.
C22_Witness ==
    \E x, c \in DOMAIN pc :
        /\ x # c
        /\ \E a \in ChatAt(x, c, 1) : \E b \in ChatAt(x, c, 2) : a < b

\* C23: whatever the transport does with the bytes, the worker takes the
\* first send of its client as the username and the k-th read of the loop
\* returns the text of the client's next send, whole and alone.
C23_OneMessagePerSend ==
    [][\A c \in DOMAIN pc :
        /\ (pc[c] = "recv_username" /\ pc'[c] # pc[c]) =>
              username'[c] = ClientSends(c)[1]
        /\ nrecv'[c] = nrecv[c] + 1 =>
              /\ nrecv'[c] + 1 <= Len(ClientSends(c))
              /\ msg'[c] = ClientSends(c)[nrecv'[c] + 1]]_vars

\* The last line entered in the chat loop of the client is the quit command.
QuitEntered ==
    /\ chat_client.typed # <<>>
    /\ lower(chat_client.typed[Len(chat_client.typed)]) = "/quit"

\* C24: once the quit command is entered the socket is closed, the chat loop
\* is left, and what the loop has sent is the lines entered before the
\* command, in the order entered; and nothing is sent on a socket the client
\* has closed.
C24_QuitClosesUnsent ==
    /\ [](QuitEntered =>
            /\ chat_client.closed
            /\ chat_client.pc # "input"
            /\ chat_client.chat_sent =
                 SubSeq(chat_client.typed, 1, Len(chat_client.typed) - 1))
    /\ [][chat_client.closed => chat_client'.sent = chat_client.sent]_vars

\* The user has entered a line and then the quit command in capitals.
C24_Witness ==
    /\ QuitEntered
    /\ Len(chat_client.typed) = 2
    /\ chat_client.typed[2] # "/quit"
    /\ chat_client.chat_sent = <<chat_client.typed[1]>>

\* C25: a receive thread whose read returned empty, the server having closed
\* the connection, makes no further read.
C25_ReceiveEndsOnClose ==
    [][\A i \in DOMAIN chat_client.rx :
        (chat_client.rx[i].pc = "got" /\ chat_client.rx[i].msg = "") =>
            chat_client'.rx[i].pc # "recv"]_vars

\* A round of the login loop has just run.
LoginRound == chat_client.pc = "login" /\ chat_client'.attempts # chat_client.attempts

\* C26: a round of login sends at most the username entered, and only when
\* authenticate accepts the credentials entered; a round whose credentials
\* authenticate rejects sends nothing and leaves the client in the login
\* loop; and login returns with exactly one frame sent, the username.
C26_HandshakeAfterAuthentication ==
    [][LoginRound =>
        LET accepted == authenticate(users_file, chat_client'.user,
                                     chat_client'.pass).ret IN
        /\ chat_client'.sent # chat_client.sent =>
              /\ accepted
              /\ chat_client'.sent = Append(chat_client.sent, encode(chat_client'.user))
        /\ ~accepted => chat_client'.sent = chat_client.sent /\ chat_client'.pc = "login"
        /\ chat_client'.pc = "chat" =>
              /\ chat_client'.sent = Append(chat_client.sent, encode(chat_client'.user))
              /\ chat_client'.username = chat_client'.user]_vars

\* The second round of login was accepted after the first was rejected, and
\* the one frame sent is the username.
C26_Witness ==
    /\ chat_client.pc = "chat"
    /\ chat_client.attempts = 2
    /\ chat_client.sent = <<encode(chat_client.user)>>

\* A call of register, and with it of save_user, has just run.
Registered == chat_client'.regs # chat_client.regs

\* C27: save_user with a username of the store returns False and leaves the
\* file as it was; with any other username it returns True and the store is
\* the old one with that username added, mapped to the digest of the password.
C27_SaveUserOnlyNew ==
    [][Registered =>
        LET u == chat_client'.user
            old == IF users_file.exists THEN users_file.users ELSE NoUsers
            new == users_file'.users
        IN  IF u \in DOMAIN old
            THEN ~chat_client'.ok /\ users_file' = users_file
            ELSE /\ chat_client'.ok
                 /\ users_file'.exists
                 /\ DOMAIN new = DOMAIN old \cup {u}
                 /\ new[u] = hexdigest(chat_client'.pass)
                 /\ \A x \in DOMAIN old : new[x] = old[x]]_vars

\* A registration added a user to a store that held another one.
C27_Witness ==
    /\ chat_client.regs = 1
    /\ chat_client.ok
    /\ DOMAIN users_file.users = {"al", chat_client.user}
    /\ chat_client.user # "al"
    /\ users_file.users["al"] = hexdigest("pw")

\* The positions of the registry that hold a session named u, and the
\* connection of the first of them: the one that joined earliest.
Named(d, u) == {i \in 1..Len(d) : d[i].live /\ d[i].user = u}

FirstNamed(d, u) ==
    d[CHOOSE i \in Named(d, u) : \A j \in Named(d, u) : i <= j].conn

\* C28: while several sessions of the registry are named <user>, a worker
\* serving '/private <user> <text>' does not fail; the connection it sends the
\* private frame to is that of the first of them in join order, the frame is
\* put on that connection, and no other connection is sent a frame.
C28_FirstMatchOnly ==
    [][\A c \in DOMAIN pc :
        (PrivateStep(c) /\ Cardinality(Named(clients, PrivateTarget(msg[c]))) > 1) =>
            /\ pc'[c] # "close"
            /\ pc[c] = "private_send" =>
                  LET first == FirstNamed(clients, PrivateTarget(msg[c])) IN
                  /\ target_conn[c] = first
                  /\ inbox'[first] =
                        Append(inbox[first], PrivateFrame(username[c], PrivateText(msg[c])))
                  /\ OnlyTo({first})]_vars

\* The command strings in the order they are tested, and where the worker
\* goes for each.
CommandStrings == <<"/help", "/list", "/private", "/stats">>

CommandLabels == <<"help", "list", "private", "stats">>

HasCommandPrefix(m) == \E k \in 1..Len(CommandStrings) : startswith(m, CommandStrings[k])

\* The first command string the payload starts with.
CommandOf(m) ==
    CommandLabels[CHOOSE k \in 1..Len(CommandStrings) :
                     /\ startswith(m, CommandStrings[k])
                     /\ \A j \in 1..(k - 1) : ~startswith(m, CommandStrings[j])]

\* Where a worker is while it serves a command, and the places among them
\* where it sends the one reply of /help, /list and /stats.
ServingCommand ==
    {"help", "list", "list_send", "private", "lookup", "not_found",
     "private_send", "private_echo", "stats", "stats_count", "stats_send"}

ReplySends == {"help", "list_send", "stats_send"}

\* C29: a payload that starts with a command string sends the worker to the
\* handler of the first such string and starts no broadcast; and while a
\* worker serves a command message_count and the broadcasts are as they were,
\* a frame is sent on the sender's connection only, except the private frame
\* sent to the target found, and /help, /list and /stats end with one frame
\* more on the sender's connection and the worker back in recv, or, the
\* sender's connection being gone, with no frame and the worker closing.
C29_PrefixIsCommand ==
    [][\A c \in DOMAIN pc :
        /\ (nrecv'[c] # nrecv[c] /\ pc'[c] # "close" /\ HasCommandPrefix(msg'[c])) =>
              /\ pc'[c] = CommandOf(msg'[c])
              /\ bc' = bc
              /\ inbox' = inbox
              /\ message_count' = message_count
        /\ (pc[c] \in ServingCommand /\ (pc'[c] # pc[c] \/ it'[c] # it[c])) =>
              /\ HasCommandPrefix(msg[c])
              /\ message_count' = message_count
              /\ bc' = bc
              /\ pc'[c] \in ServingCommand \cup {"recv", "close"}
              /\ OnlyTo(IF pc[c] = "private_send" THEN {target_conn[c]} ELSE {c})
              /\ pc[c] \in {"list", "stats", "stats_count"} =>
                    inbox' = inbox /\ pc'[c] \in ServingCommand
              /\ pc[c] \in ReplySends =>
                    IF SendOK(c)
                    THEN Len(inbox'[c]) = Len(inbox[c]) + 1 /\ pc'[c] = "recv"
                    ELSE inbox' = inbox /\ pc'[c] = "close"]_vars

\* A payload that starts with /help and goes on has been answered with the
\* help text, nothing has been counted and no other connection has been sent
\* anything since the joins.
C29_Witness ==
    \E c \in DOMAIN pc :
        /\ startswith(msg[c], "/help") /\ msg[c] # "/help"
        /\ pc[c] = "recv"
        /\ inbox[c] # <<>> /\ inbox[c][Len(inbox[c])] = HelpReply
        /\ message_count = 0
        /\ \A x \in DOMAIN pc : x # c =>
              \A k \in 1..Len(inbox[x]) : inbox[x][k] \in {JoinNotice(NameOf(y)) : y \in DOMAIN pc}

\* Worker c, in the broadcast it called from where, sends its frame on the
\* connection x in this step.
NoticeSent(c, x, where) ==
    /\ pc[c] = "bc_loop"
    /\ bc[c].ret = where
    /\ bc'[c].idx # bc[c].idx
    /\ inbox'[x] # inbox[x]

\* C30: when the join notice of a session is sent on a connection the
\* session is in the registry, and when its leave notice is sent on a
\* connection it is not.
C30_RegistryBeforeNotice ==
    [][\A c, x \in DOMAIN pc :
        /\ NoticeSent(c, x, "recv") =>
              /\ bc[c].msg = JoinNotice(username[c])
              /\ dict_contains(clients, c)
        /\ NoticeSent(c, x, "done") =>
              /\ bc[c].msg = LeaveNotice(username[c])
              /\ ~dict_contains(clients, c)]_vars

\* A session that has left holds the join notice of the other session, which
\* has been sent the leave notice of the first.
C30_Witness ==
    \E c, x \in DOMAIN pc :
        /\ x # c
        /\ pc[c] = "bc_loop" /\ bc[c].ret = "done"
        /\ bc[c].sent = <<x>>
        /\ inbox[x] # <<>> /\ inbox[x][Len(inbox[x])] = LeaveNotice(username[c])
        /\ JoinNotice(username[x]) \in {inbox[c][k] : k \in 1..Len(inbox[c])}
        /\ ~dict_contains(clients, c) /\ dict_contains(clients, x)

\* Worker c takes a step of a call of broadcast.
BroadcastStepOf(c) ==
    /\ pc[c] \in {"bc_snapshot", "bc_loop"}
    /\ pc'[c] # pc[c] \/ bc'[c] # bc[c]

\* C31: a step of broadcast leaves the registry and message_count as they
\* are; the snapshot it takes holds every connection of the registry, those
\* whose sends have failed too, and each of them but the sender is sent the
\* frame or has its failure recorded when its turn comes; and a connection
\* leaves the registry only in the cleanup of its own worker.
C31_BroadcastKeepsRegistry ==
    [][\A c \in DOMAIN pc :
        /\ BroadcastStepOf(c) =>
              /\ clients' = clients
              /\ message_count' = message_count
              /\ pc[c] = "bc_snapshot" =>
                    {bc'[c].snap[k] : k \in 1..Len(bc'[c].snap)} = dict_keyset(clients)
              /\ (pc[c] = "bc_loop" /\ pc'[c] = "bc_loop") =>
                    LET client == bc[c].snap[bc[c].idx] IN
                    client # c =>
                       \/ /\ inbox'[client] = Append(inbox[client], bc[c].msg)
                          /\ bc'[c].sent = Append(bc[c].sent, client)
                       \/ /\ inbox'[client] = inbox[client]
                          /\ bc'[c].failed = Append(bc[c].failed, client)
        /\ (dict_contains(clients, c) /\ ~dict_contains(clients', c)) =>
              pc[c] = "cleanup"]_vars

\* A session is broadcasting its second text and the send to another session
\* has failed; that session never was sent the first text, whose send had
\* failed too, and it is still in the registry.
C31_Witness ==
    \E c, x \in DOMAIN pc :
        /\ x # c
        /\ pc[c] = "bc_loop"
        /\ nrecv[c] = 2 /\ bc[c].msg = ChatFrame(NameOf(c), OrderedPayload(2))
        /\ bc[c].failed = <<x>>
        /\ ChatAt(x, c, 1) = {}
        /\ dict_contains(clients, x)
        /\ message_count = 1

====
